---- MODULE Spec2Model ----
(***************************************************************************)
(* A model of the CLMM backtester of steer_intent_backtester/steerbt:      *)
(* the Uniswap-V3 position valuation (uv3_math.py), the Portfolio          *)
(* accounting (portfolio.py), the liquidity curves (curves.py), the        *)
(* rebalance triggers (triggers.py), the strategies (strategies/) and the  *)
(* bar loop of Backtester.run (backtester.py).                             *)
(*                                                                         *)
(* Number representation.  The program computes in Python floats; the      *)
(* model computes exactly, in integers:                                    *)
(*   - a price is an integer number of tenths of a USD;                    *)
(*   - a liquidity is an integer number of thousandths;                    *)
(*   - a width is an integer number of hundredths of a percent;            *)
(*   - an amount of money is a record [cents, x96]: cents/100 USD plus     *)
(*     x96 / (10 * 10000 * Q96) USD.  The second component carries the     *)
(*     values that calculate_position_value divides by Q96 = 2^96; it is   *)
(*     kept symbolically, so that no amount is ever rounded away;          *)
(*   - a timestamp is an integer number of hours.                          *)
(***************************************************************************)
EXTENDS Integers, Sequences, FiniteSets, TLC

VARIABLES
    portfolio,      \* the Portfolio object
    call,           \* the last Portfolio call: its inputs, result and the state before it
    strategy,       \* the strategy object
    upd,            \* the last update call: its inputs, result and the state before it
    bt,             \* the Backtester: configuration, baselines, bars, position in run
    twin,           \* a second Backtester with its portfolio and strategy (SpecPair)
    trig            \* a TriggerManager with its triggers, and triggers used on their own

vars == <<portfolio, call, strategy, upd, bt, twin, trig>>

\* the value of a variable that a specification does not use
Unused == <<>>

----------------------------------------------------------------------------
(* Helpers *)

Abs(x) == IF x < 0 THEN -x ELSE x
Max(a, b) == IF a >= b THEN a ELSE b
Min(a, b) == IF a <= b THEN a ELSE b

\* max(data), min(data) of a non-empty list
RECURSIVE MaxSeq(_)
MaxSeq(data) == IF Len(data) = 1 THEN data[1] ELSE Max(data[1], MaxSeq(Tail(data)))
RECURSIVE MinSeq(_)
MinSeq(data) == IF Len(data) = 1 THEN data[1] ELSE Min(data[1], MinSeq(Tail(data)))

RECURSIVE SumSeq(_)
SumSeq(s) == IF s = <<>> THEN 0 ELSE Head(s) + SumSeq(Tail(s))

Money(c, e) == [cents |-> c, x96 |-> e]
MAdd(a, b) == [cents |-> a.cents + b.cents, x96 |-> a.x96 + b.x96]
MSub(a, b) == [cents |-> a.cents - b.cents, x96 |-> a.x96 - b.x96]
MZero == Money(0, 0)

RECURSIVE MSum(_)
MSum(s) == IF s = <<>> THEN MZero ELSE MAdd(Head(s), MSum(Tail(s)))

----------------------------------------------------------------------------
(* uv3_math.py *)

\* The resolution at which the model keeps the fixed-point square roots
\* (the program's Q96 = 2^96 is beyond TLC's integers).
QRes == 256

RECURSIVE SqrtSearch(_, _, _)
SqrtSearch(x, lo, hi) ==
    IF lo >= hi THEN lo
    ELSE LET mid == (lo + hi + 1) \div 2
         IN  IF mid * mid <= x THEN SqrtSearch(x, mid, hi)
             ELSE SqrtSearch(x, lo, mid - 1)

\* np.sqrt followed by int(): the integer square root
ISqrt(x) == SqrtSearch(x, 0, 46340)

\* int(np.sqrt(price) * Q96), price in tenths
price_to_sqrt_price_x96(price) == ISqrt((price * QRes * QRes) \div 10)

\* int(liquidity * (diff/Q) / ((a/Q) * (b/Q)))
get_amount0_for_liquidity(sqrt_price_a_x96, sqrt_price_b_x96, liquidity) ==
    LET a == Min(sqrt_price_a_x96, sqrt_price_b_x96)
        b == Max(sqrt_price_a_x96, sqrt_price_b_x96)
        diff_x96 == b - a
    IN  IF diff_x96 = 0 THEN 0
        ELSE (liquidity * diff_x96 * QRes) \div (a * b)

\* int(liquidity * (diff/Q))
get_amount1_for_liquidity(sqrt_price_a_x96, sqrt_price_b_x96, liquidity) ==
    LET a == Min(sqrt_price_a_x96, sqrt_price_b_x96)
        b == Max(sqrt_price_a_x96, sqrt_price_b_x96)
        diff_x96 == b - a
    IN  IF diff_x96 = 0 THEN 0
        ELSE (liquidity * diff_x96) \div QRes

get_amounts_for_liquidity(sqrt_price_x96, sqrt_price_a_x96, sqrt_price_b_x96, liquidity) ==
    LET a == Min(sqrt_price_a_x96, sqrt_price_b_x96)
        b == Max(sqrt_price_a_x96, sqrt_price_b_x96)
    IN  IF sqrt_price_x96 <= a
        THEN <<get_amount0_for_liquidity(a, b, liquidity), 0>>
        ELSE IF sqrt_price_x96 >= b
        THEN <<0, get_amount1_for_liquidity(a, b, liquidity)>>
        ELSE <<get_amount0_for_liquidity(sqrt_price_x96, b, liquidity),
               get_amount1_for_liquidity(a, sqrt_price_x96, liquidity)>>

\* The USD value of a position, as the x96 component of a Money:
\* (amount0/Q96) * price + amount1/Q96, in units of 1/(10 * 10000 * Q96) USD.
calculate_position_value(price, lower_price, upper_price, liquidity) ==
    LET Worth(amounts) == Money(0, (amounts[1] * price + amounts[2] * 10) * 10000)
    IN  Worth(get_amounts_for_liquidity(
                  price_to_sqrt_price_x96(price),
                  price_to_sqrt_price_x96(lower_price),
                  price_to_sqrt_price_x96(upper_price),
                  liquidity \div 1000))

\* calculate_position_value raises instead of returning: np.sqrt of a
\* negative price is NaN and int(NaN) raises ValueError; a zero lower bound
\* at a zero price divides by zero in get_amount0_for_liquidity.
position_value_raises(price, lower_price, upper_price) ==
    \/ price < 0 \/ lower_price < 0 \/ upper_price < 0
    \/ (price = 0 /\ Min(lower_price, upper_price) = 0 /\ lower_price # upper_price)

----------------------------------------------------------------------------
(* portfolio.py: Position and Portfolio *)

\* Position.__init__: fee_tier_bps defaults to 500, fees_earned starts at 0
Position(lower_price, upper_price, liquidity) ==
    [lower_price |-> lower_price, upper_price |-> upper_price,
     liquidity |-> liquidity, fee_tier_bps |-> 500, fees_earned |-> MZero]

\* Position.get_value
get_value(position, current_price) ==
    calculate_position_value(current_price, position.lower_price,
                             position.upper_price, position.liquidity)

\* the bounds taken as exclusive
is_in_range_exclusive(position, price) ==
    position.lower_price < price /\ price < position.upper_price

\* Position.is_in_range
is_in_range(position, price) ==
    position.lower_price <= price /\ price <= position.upper_price

\* Portfolio.__init__
NewPortfolio(initial_cash, fee_bps, gas_cost) ==
    [initial_cash |-> initial_cash, cash |-> initial_cash,
     fee_bps |-> fee_bps, gas_cost |-> gas_cost,
     positions |-> <<>>, transaction_history |-> <<>>, equity_curve |-> <<>>,
     total_fees_paid |-> MZero, total_gas_paid |-> MZero,
     total_slippage |-> MZero, rebalance_count |-> 0]

\* value + fees_earned of every position, in order
PositionTotals(positions, current_price) ==
    [k \in 1..Len(positions) |->
        MAdd(get_value(positions[k], current_price), positions[k].fees_earned)]

\* Portfolio.get_total_value
get_total_value(pf, current_price) ==
    MAdd(pf.cash, MSum(PositionTotals(pf.positions, current_price)))

\* value * (fee_bps / 10000.0) of a new position
CreationCost(pf, position, current_price) ==
    Money(0, (get_value(position, current_price).x96 \div 10000) * pf.fee_bps)

\* a slip of rebalance_positions: the old positions are not cleared
OpenPositions_keeping_old(positions, new_ranges, new_liquidities) ==
    positions \o [k \in 1..Len(new_ranges) |->
        Position(new_ranges[k][1], new_ranges[k][2], new_liquidities[k])]

\* self.positions.clear(), then one Position appended per (range, liquidity)
OpenPositions(positions, new_ranges, new_liquidities) ==
    [k \in 1..Len(new_ranges) |->
        Position(new_ranges[k][1], new_ranges[k][2], new_liquidities[k])]

\* Portfolio.rebalance_positions: the portfolio after the call, the returned
\* cost, and whether the call raised ValueError instead.
rebalance_positions(pf, new_ranges, new_liquidities, current_price) ==
    IF Len(new_ranges) # Len(new_liquidities)
    THEN [pf |-> pf, cost |-> MZero, raised |-> TRUE]
    \* the values of the current and of the new positions are computed
    \* before anything is changed
    ELSE IF \/ \E k \in 1..Len(pf.positions) :
                 position_value_raises(current_price, pf.positions[k].lower_price,
                                       pf.positions[k].upper_price)
            \/ \E k \in 1..Len(new_ranges) :
                 position_value_raises(current_price, new_ranges[k][1], new_ranges[k][2])
    THEN [pf |-> pf, cost |-> MZero, raised |-> TRUE]
    ELSE
    LET gas == IF pf.gas_cost.cents > 0 THEN pf.gas_cost ELSE MZero
        Settle(cash2, new_positions, total_cost) ==
            [pf |-> [pf EXCEPT
                      !.cash = cash2,
                      !.positions = new_positions,
                      !.total_gas_paid = MAdd(@, gas),
                      !.transaction_history = Append(@,
                          [type |-> "rebalance", cost |-> total_cost,
                           positions_count |-> Len(new_positions)]),
                      !.rebalance_count = @ + 1,
                      !.total_fees_paid = MAdd(@, total_cost)],
             cost |-> total_cost, raised |-> FALSE]
        \* self.cash -= total_cost, before the gas is added
        Charge(cash1, new_positions, fee_cost) ==
            Settle(MSub(cash1, fee_cost), new_positions, MAdd(fee_cost, gas))
        \* remove old positions: cash += value + fees_earned; add new positions
        Open(new_positions) ==
            Charge(MAdd(pf.cash, MSum(PositionTotals(pf.positions, current_price))),
                   new_positions,
                   MSum([k \in 1..Len(new_positions) |->
                            CreationCost(pf, new_positions[k], current_price)]))
    IN  Open(OpenPositions(pf.positions, new_ranges, new_liquidities))

\* Position.add_fees
add_fees(position, fees) ==
    [position EXCEPT !.fees_earned = MAdd(position.fees_earned, fees)]

\* Portfolio.add_fees_to_positions; liquidity_share in thousandths,
\* quote_volume in USD, the fee in cents
add_fees_to_positions(pf, close, quote_volume, liquidity_share) ==
    [pf EXCEPT !.positions = [k \in 1..Len(pf.positions) |->
        LET position == pf.positions[k]
        IN  IF is_in_range(position, close)
            THEN add_fees(position,
                   Money((quote_volume * liquidity_share * position.fee_tier_bps)
                             \div 100000, 0))
            ELSE position]]

\* Portfolio.record_equity_point
record_equity_point(pf, timestamp, current_price) ==
    LET Point(total_value) ==
            [timestamp |-> timestamp, price |-> current_price,
             total_value |-> total_value, cash |-> pf.cash,
             positions_value |-> MSub(total_value, pf.cash),
             fees_earned |-> MSum([k \in 1..Len(pf.positions) |->
                                      pf.positions[k].fees_earned]),
             total_costs |-> MAdd(MAdd(pf.total_fees_paid, pf.total_gas_paid),
                                  pf.total_slippage)]
    IN  [pf EXCEPT !.equity_curve =
            Append(@, Point(get_total_value(pf, current_price)))]

\* BaselinePortfolio.__init__; cash and amount1 in cents, amount0 in
\* ten-thousandths of the base asset
BaselinePortfolio(initial_cash, strategy_name) ==
    [initial_cash |-> initial_cash, cash |-> initial_cash,
     strategy |-> strategy_name, amount0 |-> 0, amount1 |-> 0,
     equity_curve |-> <<>>]

\* BaselinePortfolio.initialize_position
initialize_position(bp, initial_price) ==
    IF bp.strategy = "hodl_50_50"
    THEN [bp EXCEPT !.amount0 = ((bp.cash \div 2) * 1000) \div initial_price,
                    !.amount1 = bp.cash \div 2,
                    !.cash = 0]
    ELSE [bp EXCEPT !.amount0 = (bp.cash * 1000) \div initial_price,
                    !.amount1 = 0,
                    !.cash = 0]

\* BaselinePortfolio.get_value
BaselinePortfolio_get_value(bp, current_price) ==
    (bp.amount0 * current_price) \div 1000 + bp.amount1 + bp.cash

\* BaselinePortfolio.rebalance_to_50_50
rebalance_to_50_50(bp, current_price) ==
    IF bp.strategy # "hodl_50_50"
    THEN bp
    ELSE LET total_value == BaselinePortfolio_get_value(bp, current_price)
         IN  [bp EXCEPT !.amount0 = (total_value * 1000) \div (2 * current_price),
                        !.amount1 = total_value \div 2]

\* BaselinePortfolio.record_equity_point
BaselinePortfolio_record_equity_point(bp, timestamp, current_price) ==
    [bp EXCEPT !.equity_curve = Append(@,
        [timestamp |-> timestamp, price |-> current_price,
         total_value |-> BaselinePortfolio_get_value(bp, current_price),
         amount0 |-> bp.amount0, amount1 |-> bp.amount1, cash |-> bp.cash])]

----------------------------------------------------------------------------
(* curves.py *)

\* CurveFactory.create_curve(curve_type, max_bins=max_bins), with
\* CurveBase.__init__ (mirror and invert default to False) and the
\* subclass's __init__: std_dev defaults to 0.5 and slope to 1.0 (in
\* hundredths), base to 2
create_curve(curve_type, max_bins) ==
    [type |-> curve_type, max_bins |-> max_bins, std_dev |-> 50,
     slope |-> 100, base |-> 2, mirror |-> FALSE, invert |-> FALSE]

\* CurveBase.__init__: max_bins defaults to 10
CurveBase == create_curve("uniform", 10)

\* np.linspace(start, stop, bin_count + 1)[i]
linspace(start, stop, bin_count, i) == start + (i * (stop - start)) \div bin_count

\* UniformCurve._generate_distribution_impl: the list of
\* <<lower, upper, liquidity>> bins.  width_pct in hundredths of a percent.
UniformCurve_generate_distribution_impl(curve, center_price, width_pct, total_liquidity) ==
    LET half_width == (center_price * width_pct) \div 20000
        bin_count == Max(2, Min(curve.max_bins, width_pct \div 200))
        liquidity_per_bin == total_liquidity \div bin_count
    IN  [i \in 1..bin_count |->
            <<linspace(center_price - half_width, center_price + half_width, bin_count, i - 1),
              linspace(center_price - half_width, center_price + half_width, bin_count, i),
              liquidity_per_bin>>]

\* the series 1 - x + x^2/2! - ..., from the k-th term on; x in
\* thousandths, the terms in hundred-thousandths
RECURSIVE ExpSeries(_, _, _)
ExpSeries(x, k, term) ==
    IF term = 0 THEN 0
    ELSE term - ExpSeries(x, k + 1, (term * x) \div (1000 * (k + 1)))

\* np.exp(-x), x >= 0 in thousandths, the result in thousandths
exp_neg(x) == ExpSeries(x, 0, 100000) \div 100

\* GaussianCurve._generate_distribution_impl
GaussianCurve_generate_distribution_impl(curve, center_price, width_pct, total_liquidity) ==
    LET half_width == (center_price * width_pct) \div 20000
        bin_count == Max(3, Min(curve.max_bins, width_pct \div 200))
        per_bin == total_liquidity \div bin_count
        \* 0.5 * (distance / std_dev) ** 2, distance = (i - n/2) / (n/2)
        exponent(i) == (5000000 * (2 * i - bin_count) * (2 * i - bin_count))
                           \div (bin_count * bin_count * curve.std_dev * curve.std_dev)
        liquidity(i) == Max((per_bin * exp_neg(exponent(i))) \div 1000,
                            (per_bin * 5) \div 100)
    IN  [i \in 1..bin_count |->
            <<linspace(center_price - half_width, center_price + half_width, bin_count, i - 1),
              linspace(center_price - half_width, center_price + half_width, bin_count, i),
              liquidity(i - 1)>>]

\* LinearCurve._generate_distribution_impl before the transformations
LinearCurve_generate_distribution_impl(curve, center_price, width_pct, total_liquidity) ==
    LET half_width == (center_price * width_pct) \div 20000
        bin_count == Max(2, Min(curve.max_bins, width_pct \div 200))
        per_bin == total_liquidity \div bin_count
        \* distance_from_center = abs(i - n/2) / (n/2)
        liquidity(i) == Max(per_bin - (per_bin * Abs(2 * i - bin_count) * curve.slope)
                                          \div (bin_count * 100),
                            per_bin \div 10)
    IN  [i \in 1..bin_count |->
            <<linspace(center_price - half_width, center_price + half_width, bin_count, i - 1),
              linspace(center_price - half_width, center_price + half_width, bin_count, i),
              liquidity(i - 1)>>]

\* np.log(n) / np.log(2) in thousandths, n in 2..11
Log2 == <<0, 1000, 1585, 2000, 2322, 2585, 2807, 3000, 3170, 3322, 3459>>

\* LogarithmicCurve._generate_distribution_impl before the
\* transformations, for base 2
LogarithmicCurve_generate_distribution_impl(curve, center_price, width_pct, total_liquidity) ==
    LET half_width == (center_price * width_pct) \div 20000
        bin_count == Max(3, Min(curve.max_bins, width_pct \div 200))
        per_bin == total_liquidity \div bin_count
        \* log_factor = np.log(1 + i + 1) / np.log(self.base)
        liquidity(i) == Max((per_bin * Log2[i + 2]) \div 1000, per_bin \div 10)
    IN  [i \in 1..bin_count |->
            <<linspace(center_price - half_width, center_price + half_width, bin_count, i - 1),
              linspace(center_price - half_width, center_price + half_width, bin_count, i),
              liquidity(i - 1)>>]

\* sequence[::-1]
Reversed(sequence) == [i \in 1..Len(sequence) |-> sequence[Len(sequence) + 1 - i]]

\* the two operands of the mirror: sequence[:center_idx + 1] and
\* sequence[center_idx:][::-1]
MirrorHead(sequence, center_idx) ==
    SubSeq(sequence, 1, Min(center_idx + 1, Len(sequence)))
MirrorTail(sequence, center_idx) ==
    Reversed(SubSeq(sequence, center_idx + 1, Len(sequence)))

\* CurveBase._apply_transforms raises: prices is the array of np.linspace,
\* for which + is the elementwise sum and raises ValueError when the two
\* operands differ in length (each has two elements or more)
_apply_transforms_raises(curve, prices) ==
    /\ curve.mirror
    /\ Len(MirrorHead(prices, Len(prices) \div 2))
           # Len(MirrorTail(prices, Len(prices) \div 2))

\* CurveBase._apply_transforms: prices an array, summed elementwise by +;
\* liquidities a list, concatenated by +
_apply_transforms(curve, prices, liquidities) ==
    LET center_idx == Len(prices) \div 2
        Inverted(mirrored) ==
            IF curve.invert
            THEN [i \in 1..Len(mirrored) |-> MaxSeq(mirrored) - mirrored[i]]
            ELSE mirrored
    IN  IF curve.mirror
        THEN [prices |-> [i \in 1..(center_idx + 1) |->
                             MirrorHead(prices, center_idx)[i]
                                 + MirrorTail(prices, center_idx)[i]],
              liquidities |-> Inverted(MirrorHead(liquidities, center_idx)
                                           \o MirrorTail(liquidities, center_idx))]
        ELSE [prices |-> prices, liquidities |-> Inverted(liquidities)]

\* the tail of a curve's _generate_distribution_impl: the prices and the
\* liquidities transformed, and the bins created from them
TransformedBins(curve, bins) ==
    LET Created(t) ==
            [i \in 1..(Len(t.prices) - 1) |->
                <<t.prices[i], t.prices[i + 1], t.liquidities[i]>>]
    IN  Created(_apply_transforms(curve,
                                  <<bins[1][1]>> \o [i \in 1..Len(bins) |-> bins[i][2]],
                                  [i \in 1..Len(bins) |-> bins[i][3]]))

\* generate_distribution raises ValueError in _apply_transforms: the
\* prices are one more than the bins (UniformCurve applies no transformation)
generate_distribution_raises(curve, width_pct) ==
    /\ curve.type # "uniform"
    /\ _apply_transforms_raises(curve,
           [i \in 1..(Max(IF curve.type = "linear" THEN 2 ELSE 3,
                          Min(curve.max_bins, width_pct \div 200)) + 1) |-> i])

\* CurveBase.generate_distribution: total_liquidity is an amount in USD
\* (cents); scaled by liquidity_scale = 0.001 and floored at 100.0 it is a
\* liquidity (thousandths).
generate_distribution(curve, center_price, width_pct, total_liquidity) ==
    LET scaled_liquidity == Max(total_liquidity \div 100, 100000)
    IN  CASE curve.type = "uniform" ->
                UniformCurve_generate_distribution_impl(curve, center_price, width_pct,
                                                        scaled_liquidity)
          [] curve.type = "gaussian" ->
                TransformedBins(curve,
                    GaussianCurve_generate_distribution_impl(curve, center_price,
                                                             width_pct, scaled_liquidity))
          [] curve.type = "linear" ->
                TransformedBins(curve,
                    LinearCurve_generate_distribution_impl(curve, center_price,
                                                           width_pct, scaled_liquidity))
          [] curve.type = "logarithmic" ->
                TransformedBins(curve,
                    LogarithmicCurve_generate_distribution_impl(curve, center_price,
                                                                width_pct, scaled_liquidity))

----------------------------------------------------------------------------
(* triggers.py *)

\* Python's None, for a timestamp
None == -1

\* TriggerBase.__init__
TriggerBase == [last_triggered |-> None, trigger_count |-> 0]

\* Python's None, for a remembered amount of money
NoneValue == [cents |-> -1, x96 |-> 0]

\* Comparison of amounts of money: the x96 component is below any cent
MNonNeg(a) == a.cents > 0 \/ (a.cents = 0 /\ a.x96 >= 0)
MAbs(a) == IF MNonNeg(a) THEN a ELSE MSub(MZero, a)
MScale(k, a) == [cents |-> k * a.cents, x96 |-> k * a.x96]

\* GapFromCenterTrigger.should_trigger, with gap_bps given:
\* abs(price - center) / center * 10000 >= gap_bps; the state carries
\* twice the position_center, (lower + upper) / 2 being no integer
GapFromCenterTrigger_should_trigger(gap_bps, current_state) ==
    LET twice_center == current_state.twice_position_center
    IN  Abs(2 * current_state.current_price - twice_center) * 10000 >= gap_bps * twice_center

\* RangeInactiveTrigger.should_trigger
RangeInactiveTrigger_should_trigger(current_state) ==
    \/ current_state.current_price < current_state.lower_price
    \/ current_state.current_price > current_state.upper_price

\* PercentDriftTrigger.should_trigger: the result and the trigger after it.
\* abs(value - last) / last * 100 >= drift_threshold_pct
PercentDriftTrigger_should_trigger(trigger, drift_threshold_pct, current_state) ==
    LET current_position_value == current_state.position_value
    IN  IF trigger.last_position_value = NoneValue
        THEN [fired |-> FALSE,
              trigger |-> [trigger EXCEPT !.last_position_value = current_position_value]]
        ELSE IF MNonNeg(MSub(MScale(100, MAbs(MSub(current_position_value,
                                                    trigger.last_position_value))),
                             MScale(drift_threshold_pct, trigger.last_position_value)))
        THEN [fired |-> TRUE,
              trigger |-> [trigger EXCEPT !.last_position_value = current_position_value]]
        ELSE [fired |-> FALSE, trigger |-> trigger]

\* ElapsedTimeTrigger.should_trigger: the result and the trigger after it
ElapsedTimeTrigger_should_trigger(trigger, time_delta, current_state) ==
    IF trigger.last_triggered = None
    THEN [fired |-> FALSE,
          trigger |-> [trigger EXCEPT !.last_triggered = current_state.current_timestamp]]
    ELSE [fired |-> current_state.current_timestamp - trigger.last_triggered >= time_delta,
          trigger |-> trigger]

\* TriggerManager.should_trigger_any, the bookkeeping of one trigger:
\* a fired trigger gets last_triggered and trigger_count updated
MarkTriggered(fired, trigger, current_state) ==
    IF fired
    THEN [trigger EXCEPT !.last_triggered = current_state.current_timestamp,
                         !.trigger_count = @ + 1]
    ELSE trigger

\* The names ClassicStrategy._setup_triggers registers, in order
TriggerNames == <<"gap_from_center", "range_inactive", "percent_drift", "time_elapsed">>

\* TriggerManager.should_trigger_any over the four triggers of a
\* ClassicStrategy: whether any fired, the names of those that fired in
\* registration order, and the triggers after the call.
should_trigger_any(triggers, parameters, current_state) ==
    LET gap == GapFromCenterTrigger_should_trigger(parameters.gap_bps, current_state)
        range == RangeInactiveTrigger_should_trigger(current_state)
        drift == PercentDriftTrigger_should_trigger(triggers.percent_drift,
                     parameters.drift_threshold_pct, current_state)
        time == ElapsedTimeTrigger_should_trigger(triggers.time_elapsed,
                     parameters.time_threshold_hours, current_state)
        fired == [gap_from_center |-> gap, range_inactive |-> range,
                  percent_drift |-> drift.fired, time_elapsed |-> time.fired]
    IN  [should_trigger |-> \E k \in 1..Len(TriggerNames) : fired[TriggerNames[k]],
         triggered_names |-> SelectSeq(TriggerNames, LAMBDA name : fired[name]),
         triggers |->
           [gap_from_center |-> MarkTriggered(gap, triggers.gap_from_center, current_state),
            range_inactive |-> MarkTriggered(range, triggers.range_inactive, current_state),
            percent_drift |-> MarkTriggered(drift.fired, drift.trigger, current_state),
            time_elapsed |-> MarkTriggered(time.fired, time.trigger, current_state)]]

----------------------------------------------------------------------------
(* strategies/base.py and strategies/classic.py *)

\* price_data is a sequence of bars [timestamp, close, quote_volume];
\* price_data.index[-1] is the timestamp of its last bar
LastIndex(price_data) ==
    IF Len(price_data) > 0 THEN price_data[Len(price_data)].timestamp ELSE None

\* price_data["close"].rolling(window).mean().iloc[-1]
RollingMeanClose(price_data, window) ==
    SumSeq([k \in 1..window |-> price_data[Len(price_data) - window + k].close])
        \div window

\* ClassicStrategy.__init__ and _setup_triggers (BaseStrategy.__init__ for
\* the state): parameters holds width_mode, width_value, placement_mode,
\* max_positions, gap_bps, drift_threshold_pct, time_threshold_hours
NewClassicStrategy(parameters) ==
    [name |-> "ClassicStrategy", parameters |-> parameters,
     initialized |-> FALSE, current_ranges |-> <<>>, current_liquidities |-> <<>>,
     last_update |-> None, rebalance_count |-> 0,
     curve |-> CurveBase,
     triggers |-> [gap_from_center |-> TriggerBase,
                   range_inactive |-> TriggerBase,
                   percent_drift |-> [last_triggered |-> None, trigger_count |-> 0,
                                      last_position_value |-> NoneValue],
                   time_elapsed |-> TriggerBase]]

\* ClassicStrategy._calculate_width, in hundredths of a percent
\*   percent: width_value (a percentage)
\*   multiplier: 5.0 * width_value
\*   static_ticks: (width_value * 0.0001 / current_price) * 100
_calculate_width(self, current_price) ==
    LET width_value == self.parameters.width_value
    IN  CASE self.parameters.width_mode = "percent" -> 100 * width_value
          [] self.parameters.width_mode = "multiplier" -> 500 * width_value
          [] self.parameters.width_mode = "static_ticks" ->
                 (width_value * 10) \div current_price

\* ClassicStrategy._calculate_center_price
_calculate_center_price(self, price_data, current_price) ==
    CASE self.parameters.placement_mode = "center" -> current_price
      [] self.parameters.placement_mode = "recenter" ->
            IF self.current_ranges # <<>>
            THEN LET current_lower == self.current_ranges[1][1]
                     current_upper == self.current_ranges[1][2]
                 IN  IF current_price < current_lower \/ current_price > current_upper
                     THEN current_price
                     ELSE (current_lower + current_upper) \div 2
            ELSE current_price
      [] self.parameters.placement_mode = "dynamic" ->
            IF Len(price_data) >= 20
            THEN RollingMeanClose(price_data, 20)
            ELSE current_price

\* ClassicStrategy.calculate_range, max_positions == 1:
\* "use the first (and only) bin", distribution[0]
SinglePosition(distribution) == distribution[1]

\* ranges = [(lower, upper) ...]; liquidities = [liq ...] of a distribution
FromDistribution(distribution) ==
    << [k \in 1..Len(distribution) |-> <<distribution[k][1], distribution[k][2]>>],
       [k \in 1..Len(distribution) |-> distribution[k][3]] >>

\* ClassicStrategy.calculate_range: <<ranges, liquidities>>
ClassicStrategy_calculate_range(self, price_data, current_price, portfolio_value) ==
    LET width_pct == _calculate_width(self, current_price)
        center_price == _calculate_center_price(self, price_data, current_price)
        Positions(distribution) ==
            IF self.parameters.max_positions = 1
            THEN LET Only(bin) == << << <<bin[1], bin[2]>> >>, <<bin[3]>> >>
                 IN  Only(SinglePosition(distribution))
            ELSE FromDistribution(distribution)
    IN  Positions(generate_distribution(self.curve, center_price, width_pct,
                                        (portfolio_value.cents * 95) \div 100))

\* BaseStrategy.__init__
BaseStrategy(name, parameters) ==
    [name |-> name, parameters |-> parameters,
     initialized |-> FALSE, current_ranges |-> <<>>, current_liquidities |-> <<>>,
     last_update |-> None, rebalance_count |-> 0]

\* portfolio_value * 0.95, passed on as a liquidity (thousandths)
UnscaledLiquidity(portfolio_value) == ((portfolio_value.cents * 95) \div 100) * 10

\* "Not enough data, use simple range around current price": 5% wide
DefaultRange(current_price, portfolio_value) ==
    << << <<current_price - (current_price * 25) \div 1000,
            current_price + (current_price * 25) \div 1000>> >>,
       <<UnscaledLiquidity(portfolio_value)>> >>

\* ((upper - lower) / center_price) * 100, in hundredths of a percent
BandWidthPct(lower, upper, center_price) == ((upper - lower) * 10000) \div center_price

Column(price_data, name) == [k \in 1..Len(price_data) |-> price_data[k][name]]
Last(data) == data[Len(data)]
Window(data, period) == SubSeq(data, Len(data) - period + 1, Len(data))

RECURSIVE Pow(_, _)
Pow(b, e) == IF e = 0 THEN 1 ELSE b * Pow(b, e - 1)


\* BaseStrategy._calculate_sma
_calculate_sma(data, period) ==
    IF Len(data) < period
    THEN IF Len(data) > 0 THEN Last(data) ELSE 0
    ELSE SumSeq(Window(data, period)) \div period

\* BaseStrategy._calculate_ema: data.ewm(span=period).mean().iloc[-1], the
\* mean of the whole series with weights ((period-1)/(period+1))^age
_calculate_ema(data, period) ==
    IF Len(data) < period
    THEN IF Len(data) > 0 THEN Last(data) ELSE 0
    ELSE LET n == Len(data)
             weight(age) == Pow(period - 1, age) * Pow(period + 1, n - 1 - age)
         IN  SumSeq([k \in 1..n |-> data[k] * weight(n - k)])
                 \div SumSeq([k \in 1..n |-> weight(n - k)])

\* BaseStrategy._calculate_std: the sample standard deviation (ddof = 1)
\* of the last period values
_calculate_std(data, period) ==
    IF Len(data) < period
    THEN 0
    ELSE LET w == Window(data, period)
             total == SumSeq(w)
             squares == SumSeq([k \in 1..period |->
                                  (period * w[k] - total) * (period * w[k] - total)])
         IN  ISqrt(squares \div (period - 1)) \div period

\* BaseStrategy._calculate_atr
_calculate_atr(high, low, close, period) ==
    IF Len(high) < period
    THEN 0
    ELSE LET true_range == [k \in 1..Len(high) |->
                 IF k = 1 THEN high[k] - low[k]
                 ELSE Max(high[k] - low[k],
                          Max(Abs(high[k] - close[k - 1]), Abs(low[k] - close[k - 1])))]
         IN  SumSeq(Window(true_range, period)) \div period

\* ChannelMultiplierStrategy.__init__; width_pct a percentage
NewChannelMultiplierStrategy(parameters) ==
    BaseStrategy("ChannelMultiplierStrategy", parameters)

\* ChannelMultiplierStrategy.calculate_range
ChannelMultiplierStrategy_calculate_range(self, price_data, current_price, portfolio_value) ==
    LET half == (current_price * self.parameters.width_pct) \div 200
    IN  << << <<current_price - half, current_price + half>> >>,
           <<UnscaledLiquidity(portfolio_value)>>, self >>

\* BollingerStrategy.__init__, KeltnerStrategy.__init__, DonchianStrategy.__init__:
\* a uniform curve by default, and the bands last computed
NewBandStrategy(name, parameters) ==
    [curve |-> CurveBase, last_center |-> None, last_deviation |-> None,
     last_upper |-> None, last_lower |-> None] @@ BaseStrategy(name, parameters)

\* the ranges on bands lower..upper around center: the bands themselves
\* for a single position, else the curve's bins
BandRanges(self, lower, upper, center, portfolio_value) ==
    IF self.parameters.max_positions = 1
    THEN << << <<lower, upper>> >>, <<UnscaledLiquidity(portfolio_value)>> >>
    ELSE FromDistribution(
             generate_distribution(self.curve, center, BandWidthPct(lower, upper, center),
                                   (portfolio_value.cents * 95) \div 100))

\* BollingerStrategy.calculate_range
BollingerStrategy_calculate_range(self, price_data, current_price, portfolio_value) ==
    IF Len(price_data) < self.parameters.n
    THEN DefaultRange(current_price, portfolio_value) \o <<self>>
    ELSE LET close_prices == Column(price_data, "close")
             Bands(sma, std, upper_band, lower_band) ==
                 BandRanges(self, lower_band, upper_band, sma, portfolio_value)
                     \o <<[self EXCEPT !.last_center = sma, !.last_deviation = std,
                                       !.last_upper = upper_band,
                                       !.last_lower = lower_band]>>
             Around(sma, std) ==
                 Bands(sma, std, sma + self.parameters.k * std,
                       sma - self.parameters.k * std)
         IN  Around(_calculate_sma(close_prices, self.parameters.n),
                    _calculate_std(close_prices, self.parameters.n))

\* KeltnerStrategy.calculate_range
KeltnerStrategy_calculate_range(self, price_data, current_price, portfolio_value) ==
    IF Len(price_data) < self.parameters.n
    THEN DefaultRange(current_price, portfolio_value) \o <<self>>
    ELSE LET Channels(ema, atr, upper_channel, lower_channel) ==
                 BandRanges(self, lower_channel, upper_channel, ema, portfolio_value)
                     \o <<[self EXCEPT !.last_center = ema, !.last_deviation = atr,
                                       !.last_upper = upper_channel,
                                       !.last_lower = lower_channel]>>
             Around(ema, atr) ==
                 Channels(ema, atr, ema + self.parameters.m * atr,
                          ema - self.parameters.m * atr)
         IN  Around(_calculate_ema(Column(price_data, "close"), self.parameters.n),
                    _calculate_atr(Column(price_data, "high"), Column(price_data, "low"),
                                   Column(price_data, "close"), self.parameters.n))

\* DonchianStrategy.calculate_range; width_multiplier in tenths
DonchianStrategy_calculate_range(self, price_data, current_price, portfolio_value) ==
    IF Len(price_data) < self.parameters.n
    THEN DefaultRange(current_price, portfolio_value) \o <<self>>
    ELSE LET Channel(highest_high, lowest_low, center) ==
                 BandRanges(self, lowest_low, highest_high, center, portfolio_value)
                     \o <<[self EXCEPT !.last_center = center,
                                       !.last_upper = highest_high,
                                       !.last_lower = lowest_low]>>
             Centered(highest_high, lowest_low) ==
                 Channel(highest_high, lowest_low, (highest_high + lowest_low) \div 2)
             \* width_multiplier != 1.0: the channel is rescaled around its middle
             Widened(hh, ll, width) ==
                 IF self.parameters.width_multiplier # 10
                 THEN Centered((hh + ll) \div 2 + width \div 2,
                               (hh + ll) \div 2 - width \div 2)
                 ELSE Centered(hh, ll)
             Extremes(hh, ll) ==
                 Widened(hh, ll, ((hh - ll) * self.parameters.width_multiplier) \div 10)
         IN  Extremes(MaxSeq(Window(Column(price_data, "high"), self.parameters.n)),
                      MinSeq(Window(Column(price_data, "low"), self.parameters.n)))

\* StableStrategy.__init__: the curve has max_bins = bin_count
NewStableStrategy(parameters) ==
    [curve |-> create_curve(parameters.curve_type, parameters.bin_count),
     last_peg |-> None, last_peg_timestamp |-> None]
        @@ BaseStrategy("StableStrategy", parameters)

\* StableStrategy._compute_peg, peg methods sma and ema
_compute_peg(self, price_data, current_price) ==
    IF Len(price_data) < self.parameters.peg_period
    THEN current_price
    ELSE CASE self.parameters.peg_method = "sma" ->
                  _calculate_sma(Column(price_data, "close"), self.parameters.peg_period)
           [] self.parameters.peg_method = "ema" ->
                  _calculate_ema(Column(price_data, "close"), self.parameters.peg_period)

\* StableStrategy.calculate_range; peg_offset in thousandths
StableStrategy_calculate_range(self, price_data, current_price, portfolio_value) ==
    LET Pegged(computed, peg_price) ==
            FromDistribution(
                generate_distribution(self.curve, peg_price, 100 * self.parameters.width_pct,
                                      (portfolio_value.cents * 95) \div 100))
                \o <<[self EXCEPT !.last_peg = computed,
                                  !.last_peg_timestamp = LastIndex(price_data)]>>
        Offset(computed) ==
            Pegged(computed, IF self.parameters.peg_offset # 0
                             THEN (computed * (1000 + self.parameters.peg_offset)) \div 1000
                             ELSE computed)
    IN  Offset(_compute_peg(self, price_data, current_price))

\* FluidStrategy.__init__; the ratios in ten-thousandths.  normal_draw is
\* the next value of np.random.normal(0, 0.01), in thousandths.
NewFluidStrategy(parameters) ==
    [current_ratio |-> None, current_state |-> "default",
     last_rebalance_ratio |-> None, normal_draw |-> 0]
        @@ BaseStrategy("FluidStrategy", parameters)

\* FluidStrategy._estimate_current_ratio
_estimate_current_ratio(self) ==
    IF self.current_ratio = None
    THEN self.parameters.ideal_ratio
    ELSE (self.current_ratio * (1000 + self.normal_draw)) \div 1000

\* FluidStrategy._determine_state for the ratio just estimated
_determine_state(self, current_ratio) ==
    LET deviation == Abs(current_ratio - self.parameters.ideal_ratio)
    IN  IF deviation <= (self.parameters.acceptable_ratio * self.parameters.ideal_ratio) \div 10000
        THEN "default"
        ELSE IF deviation <=
                  (self.parameters.rebalance_threshold * self.parameters.ideal_ratio) \div 10000
             THEN "unbalanced"
             ELSE "one_sided"

\* the width (hundredths of a percent) and the max_bins of the sprawl:
\* _generate_full_sprawl, _generate_dynamic_sprawl, _generate_static_sprawl
Sprawl(self, current_state) ==
    CASE self.parameters.sprawl_type = "full" -> <<2000, CurveBase.max_bins>>
      [] self.parameters.sprawl_type = "dynamic" ->
            CASE current_state = "default" -> <<1000, 3>>
              [] current_state = "unbalanced" -> <<1500, 4>>
              [] OTHER -> <<2500, 5>>
      [] self.parameters.sprawl_type = "static" -> <<1500, 4>>

\* FluidStrategy.calculate_range
FluidStrategy_calculate_range(self, price_data, current_price, portfolio_value) ==
    LET current_ratio == _estimate_current_ratio(self)
        current_state == _determine_state(self, current_ratio)
        sprawl == Sprawl(self, current_state)
    IN  FromDistribution(
            generate_distribution(create_curve(self.parameters.curve_type, sprawl[2]),
                                  current_price, sprawl[1],
                                  (portfolio_value.cents * 95) \div 100))
            \o <<[self EXCEPT !.current_ratio = current_ratio,
                              !.current_state = current_state,
                              !.last_rebalance_ratio = current_ratio]>>

\* imperfect_classic.py.  random.seed(42) in __init__: the values the
\* random.random() calls return after it, in order, in ten-thousandths
RandomStream ==
  <<6394, 250, 2750, 2232, 7364, 6766, 8921, 869, 4219, 297, 2186, 5053,
    265, 1988, 6498, 5449, 2204, 5892, 8094, 64, 8058, 6981, 3402, 1554,
    9572, 3365, 927, 967, 8474, 6037, 8071, 7297, 5362, 9731, 3785, 5520,
    8294, 6185, 8617, 5773, 7045, 458, 2278, 2893, 797, 2327, 1010, 2779,
    6356, 3648, 3701, 2095, 2669, 9366, 6480, 6091, 1711, 7291, 1634, 3794,
    9895, 6399, 5569, 6846, 8428, 7759, 2290, 321, 3154, 2677, 2109, 9429,
    8763, 3146, 6554, 3956, 9145, 4588, 2648, 2466, 5613, 2627, 5845, 8978,
    3994, 2193, 9975, 5095, 909, 471, 1096, 6274, 7920, 4221, 635, 3816,
    9961, 5291, 9710, 8607, 114, 7207, 6817, 5369, 2668, 6409, 1115, 4347,
    4537, 9538, 8758, 2633, 5005, 1786, 9126, 8705, 2984, 6389, 6089, 1528,
    7625, 5393, 7786, 5303, 5, 3241, 194, 9290, 8787, 8316, 3075, 579,
    8780, 9469, 856, 4859, 692, 7606, 7658, 1283, 4752, 5498, 2650, 8724,
    4231, 2117, 5392, 7299, 2011, 3117, 9951, 6498, 4381, 5175, 1210, 2246,
    3380, 5883, 2301, 2202, 709, 6311, 2289, 9054, 8596, 708, 2380, 6689,
    2142, 1323, 9355, 5710, 4726, 7846, 8074, 1904, 969, 4310, 4235, 4670,
    7290, 6733, 9841, 984, 4026, 3393, 8616, 2486, 1902, 4486, 4218, 2785,
    2498, 9232, 4431, 8613, 5503, 505, 9992, 8360>>

\* random.random() after `drawn` earlier draws
random(drawn) == RandomStream[drawn + 1]

\* ImperfectClassicStrategy.__init__; imperfection_level and
\* forced_no_rebalance_chance in hundredths, drawn the number of values
\* taken from the generator the constructor seeded
NewImperfectClassicStrategy(parameters) ==
    [imperfection_level |-> 50, forced_no_rebalance_chance |-> 20,
     failed_rebalances |-> 0, last_rebalance_time |-> None,
     forced_no_rebalance_periods |-> 0, consecutive_failures |-> 0,
     market_stress_mode |-> FALSE, drawn |-> 0]
        @@ [NewClassicStrategy(parameters) EXCEPT !.name = "ImperfectClassicStrategy"]

\* [liq * factor for liq in liquidities], factor in ten-thousandths
Effective(liquidities, factor) ==
    [k \in DOMAIN liquidities |-> ((liquidities[k] \div 100) * factor) \div 100]

\* ImperfectClassicStrategy.calculate_range, step 1, the loop over the
\* ranges: <<adjusted_ranges, drawn>>
RECURSIVE SuboptimalRanges(_, _)
SuboptimalRanges(ranges, drawn) ==
    IF ranges = <<>> THEN << <<>>, drawn >>
    ELSE LET lower == ranges[1][1]
             upper == ranges[1][2]
             range_width == upper - lower
             Append1(adjusted, rest) == << <<adjusted>> \o rest[1], rest[2] >>
         IN  IF random(drawn) < 4000
             THEN Append1(<<lower - (range_width * 4) \div 10,
                            upper + (range_width * 4) \div 10>>,
                          SuboptimalRanges(Tail(ranges), drawn + 1))
             ELSE IF random(drawn + 1) < 3000
             THEN Append1(<<lower + range_width \div 4, upper - range_width \div 4>>,
                          SuboptimalRanges(Tail(ranges), drawn + 2))
             ELSE Append1(<<lower, upper>>, SuboptimalRanges(Tail(ranges), drawn + 2))

\* ImperfectClassicStrategy.calculate_range, for imperfection_level <= 0.7
\* (steps 5 and 6 of the method are skipped at these levels)
ImperfectClassicStrategy_calculate_range(self, price_data, current_price, portfolio_value) ==
    LET Stressed(ranges, liquidities, d) ==
            IF self.market_stress_mode
            THEN <<ranges, Effective(liquidities, 5000 + (random(d) * 3) \div 10), d + 1>>
            ELSE <<ranges, liquidities, d>>
        Noised(ranges, liquidities, d) ==
            IF random(d) < self.imperfection_level * 40
            THEN Stressed(ranges,
                          Effective(liquidities, 7000 + (random(d + 1) * 6) \div 10),
                          d + 2)
            ELSE Stressed(ranges, liquidities, d + 1)
        Reduced(rd, liquidities) ==
            Noised(rd[1], Effective(liquidities, 10000 - 70 * self.imperfection_level),
                   rd[2])
        Adjusted(rl) ==
            IF rl[1] = <<>> \/ rl[2] = <<>> THEN <<rl[1], rl[2], self.drawn>>
            ELSE IF random(self.drawn) < self.imperfection_level * 50
            THEN Reduced(SuboptimalRanges(rl[1], self.drawn + 1), rl[2])
            ELSE Reduced(<<rl[1], self.drawn + 1>>, rl[2])
        Stored(r) == <<r[1], r[2], [self EXCEPT !.drawn = r[3]]>>
    IN  Stored(Adjusted(ClassicStrategy_calculate_range(self, price_data, current_price,
                                                        portfolio_value)))

\* self.calculate_range of the strategy's class: <<ranges, liquidities>>
\* and the strategy with what the computation stored in it
calculate_range(self, price_data, current_price, portfolio_value) ==
    CASE self.name = "ClassicStrategy" ->
            ClassicStrategy_calculate_range(self, price_data, current_price,
                                            portfolio_value) \o <<self>>
      [] self.name = "ImperfectClassicStrategy" ->
            ImperfectClassicStrategy_calculate_range(self, price_data, current_price,
                                                     portfolio_value)
      [] self.name = "ChannelMultiplierStrategy" ->
            ChannelMultiplierStrategy_calculate_range(self, price_data, current_price,
                                                      portfolio_value)
      [] self.name = "BollingerStrategy" ->
            BollingerStrategy_calculate_range(self, price_data, current_price,
                                              portfolio_value)
      [] self.name = "KeltnerStrategy" ->
            KeltnerStrategy_calculate_range(self, price_data, current_price,
                                            portfolio_value)
      [] self.name = "DonchianStrategy" ->
            DonchianStrategy_calculate_range(self, price_data, current_price,
                                             portfolio_value)
      [] self.name = "StableStrategy" ->
            StableStrategy_calculate_range(self, price_data, current_price,
                                           portfolio_value)
      [] self.name = "FluidStrategy" ->
            FluidStrategy_calculate_range(self, price_data, current_price,
                                          portfolio_value)

\* BaseStrategy.initialize
initialize(self, initial_price, portfolio_value, price_data) ==
    IF self.initialized THEN self
    ELSE LET Store(rl) == [rl[3] EXCEPT !.current_ranges = rl[1],
                                        !.current_liquidities = rl[2],
                                        !.initialized = TRUE]
         IN  Store(calculate_range(self, price_data, initial_price, portfolio_value))

\* abs(new - current) / current > 0.01
RangeMoved(new_bound, current_bound) ==
    Abs(new_bound - current_bound) * 100 > current_bound

\* abs(new_liq - current_liq) / current_liq > 0.05
LiquidityMoved(new_liq, current_liq) ==
    Abs(new_liq - current_liq) * 20 > current_liq

\* a _should_rebalance that accepts every freshly computed target
_should_rebalance_always(self, new_ranges, new_liquidities) == TRUE

\* BaseStrategy._should_rebalance
_should_rebalance(self, new_ranges, new_liquidities) ==
    \/ Len(new_ranges) # Len(self.current_ranges)
    \/ Len(new_liquidities) # Len(self.current_liquidities)
    \/ \E k \in 1..Len(new_ranges) :
          \/ RangeMoved(new_ranges[k][1], self.current_ranges[k][1])
          \/ RangeMoved(new_ranges[k][2], self.current_ranges[k][2])
    \/ \E k \in 1..Len(new_liquidities) :
          LiquidityMoved(new_liquidities[k], self.current_liquidities[k])

\* an update that initializes without signalling, whatever the state
BaseStrategy_update_silent_first(self, price_data, current_price, portfolio_value, force_update) ==
    [strategy |-> initialize(self, current_price, portfolio_value, price_data),
     ret |-> FALSE]

\* BaseStrategy.update: the strategy after the call and the returned flag
BaseStrategy_update(self, price_data, current_price, portfolio_value, force_update) ==
    IF ~self.initialized
    THEN [strategy |-> initialize(self, current_price, portfolio_value, price_data),
          ret |-> TRUE]
    ELSE LET Decide(rl) ==
                 IF force_update \/ _should_rebalance(self, rl[1], rl[2])
                 THEN [strategy |-> [rl[3] EXCEPT
                                       !.current_ranges = rl[1],
                                       !.current_liquidities = rl[2],
                                       !.rebalance_count = @ + 1,
                                       !.last_update = LastIndex(price_data)],
                       ret |-> TRUE]
                 ELSE [strategy |-> rl[3], ret |-> FALSE]
         IN  Decide(calculate_range(self, price_data, current_price, portfolio_value))

\* the current_state dict ClassicStrategy.should_rebalance builds
CurrentState(self, price_data, current_price, portfolio_value) ==
    [current_price |-> current_price,
     twice_position_center |->
         IF self.current_ranges # <<>>
         THEN self.current_ranges[1][1] + self.current_ranges[1][2]
         ELSE 2 * current_price,
     lower_price |-> IF self.current_ranges # <<>>
                     THEN self.current_ranges[1][1] ELSE 0,
     upper_price |-> IF self.current_ranges # <<>>
                     THEN self.current_ranges[1][2] ELSE 0,
     position_value |-> portfolio_value,
     current_timestamp |-> LastIndex(price_data)]

\* ClassicStrategy.should_rebalance: the result, the names of the triggers
\* that fired, and the strategy (its triggers) after the call
should_rebalance(self, price_data, current_price, portfolio_value) ==
    IF ~self.initialized
    THEN [ret |-> TRUE, triggered_names |-> <<>>, strategy |-> self]
    ELSE LET Outcome(t) ==
                 [ret |-> t.should_trigger, triggered_names |-> t.triggered_names,
                  strategy |-> [self EXCEPT !.triggers = t.triggers]]
         IN  Outcome(should_trigger_any(self.triggers, self.parameters,
                         CurrentState(self, price_data, current_price, portfolio_value)))

\* an update that runs BaseStrategy.update whatever the triggers said
ClassicStrategy_update_unconditional(self, price_data, current_price, portfolio_value, force_update) ==
    LET Checked(sr) ==
            BaseStrategy_update(sr.strategy, price_data, current_price,
                                portfolio_value, force_update)
                @@ [triggered_names |-> sr.triggered_names]
    IN  Checked(should_rebalance(self, price_data, current_price, portfolio_value))

\* ClassicStrategy.update: the strategy after the call, the returned flag,
\* and the names of the triggers that fired during the call
ClassicStrategy_update(self, price_data, current_price, portfolio_value, force_update) ==
    LET Returned(u, names) ==
            [strategy |-> u.strategy, ret |-> u.ret, triggered_names |-> names]
        Checked(sr) ==
            IF sr.ret
            THEN Returned(BaseStrategy_update(sr.strategy, price_data, current_price,
                                              portfolio_value, force_update),
                          sr.triggered_names)
            ELSE [strategy |-> sr.strategy, ret |-> FALSE,
                  triggered_names |-> sr.triggered_names]
    IN  IF force_update
        THEN Returned(BaseStrategy_update(self, price_data, current_price,
                                          portfolio_value, force_update), <<>>)
        ELSE Checked(should_rebalance(self, price_data, current_price, portfolio_value))

----------------------------------------------------------------------------
(* SpecPortfolio: a Portfolio driven through its public methods with       *)
(* arbitrary arguments: at most MaxCalls rebalances, and between two of    *)
(* them at most one accrual of fees, as in a bar of the backtest.          *)

MaxCalls == 2
MaxPositions == 2

SeqsUpTo(S, n) == UNION {[1..k -> S] : k \in 0..n}

PriceInputs == {20000, 21500}
ValidRangeInputs == {<<19000, 21000>>, <<20425, 22575>>}
\* the lists of ranges passed: valid ones, and one with a negative bound
RangeSeqInputs == SeqsUpTo(ValidRangeInputs, MaxPositions) \cup {<< <<-100, 21000>> >>}
\* the lists of liquidities passed: of every length, so that the lengths
\* of the two lists may differ
LiquiditySeqInputs ==
    {[k \in 1..m |-> IF k % 2 = 1 THEN 50000 ELSE 20000] : m \in 0..MaxPositions}
QuoteVolumeInputs == {10000}
\* the closes of the bars that accrue fees: the prices, and the upper
\* bound of the second range
FeeCloseInputs == PriceInputs \cup {22575}
CashInputs == {Money(1000000, 0)}
FeeBpsInputs == {5}
GasCostInputs == {Money(0, 0), Money(500, 0)}

NoCall == [op |-> "none", n |-> 0]

InitPortfolio ==
    /\ \E c \in CashInputs, f \in FeeBpsInputs, g \in GasCostInputs :
           portfolio = NewPortfolio(c, f, g)
    /\ call = NoCall
    /\ strategy = Unused /\ upd = Unused /\ bt = Unused /\ twin = Unused /\ trig = Unused

\* portfolio.rebalance_positions(new_ranges, new_liquidities, current_price)
CallRebalance ==
    \E new_ranges \in RangeSeqInputs,
       new_liquidities \in LiquiditySeqInputs,
       current_price \in PriceInputs :
        LET r == rebalance_positions(portfolio, new_ranges, new_liquidities, current_price)
        IN  /\ portfolio' = r.pf
            /\ call' = [op |-> "rebalance_positions", n |-> call.n + 1,
                        before |-> portfolio,
                        new_ranges |-> new_ranges, new_liquidities |-> new_liquidities,
                        current_price |-> current_price,
                        cost |-> r.cost, raised |-> r.raised]

\* portfolio.add_fees_to_positions(bar, liquidity_share)
CallAddFees ==
    \E close \in FeeCloseInputs, quote_volume \in QuoteVolumeInputs :
        /\ portfolio' = add_fees_to_positions(portfolio, close, quote_volume, 2)
        /\ call' = [op |-> "add_fees_to_positions", n |-> call.n,
                    before |-> portfolio,
                    close |-> close, quote_volume |-> quote_volume]

NextPortfolio ==
    \/ call.n < MaxCalls /\ CallRebalance /\ UNCHANGED <<strategy, upd, bt, twin, trig>>
    \/ call.op = "rebalance_positions" /\ CallAddFees /\ UNCHANGED <<strategy, upd, bt, twin, trig>>

SpecPortfolio == InitPortfolio /\ [][NextPortfolio]_vars

----------------------------------------------------------------------------
(* SpecStrategy: a ClassicStrategy driven through update with arbitrary    *)
(* arguments, at most MaxUpdates times.                                    *)

MaxUpdates == 3

DefaultTriggerParameters ==
    [gap_bps |-> 100, drift_threshold_pct |-> 5, time_threshold_hours |-> 24]

ClassicParameters(width_mode, width_value, placement_mode, max_positions) ==
    [width_mode |-> width_mode, width_value |-> width_value,
     placement_mode |-> placement_mode, max_positions |-> max_positions]
        @@ DefaultTriggerParameters

\* the configurations: every placement mode, every width mode (each of
\* them a width of 10%), one position and several
ClassicParameterInputs ==
    {ClassicParameters("percent", 10, "center", 1),
     ClassicParameters("percent", 10, "recenter", 1),
     ClassicParameters("percent", 10, "dynamic", 1),
     ClassicParameters("percent", 10, "center", 5),
     ClassicParameters("multiplier", 2, "recenter", 5),
     ClassicParameters("static_ticks", 2000000, "center", 1)}

\* 2000 and 2150 (the scenario of the specification), 1930 (inside the
\* first bin of a 10% distribution around 2000)
StrategyPriceInputs == {20000, 21500, 19300}
\* 10,000 USD and 200,000 USD
ValueInputs == {Money(1000000, 0), Money(20000000, 0)}
TimeInputs == {24, 48}

\* a history of n hourly bars ending at timestamp t with close last_close,
\* the earlier closes being 2000
History(n, t, last_close) ==
    [k \in 1..n |-> [timestamp |-> t - n + k,
                     close |-> IF k = n THEN last_close ELSE 20000,
                     quote_volume |-> 10000]]

\* the history lengths passed: 20 bars matter to the "dynamic" placement only
HistoryLengths(s) == IF s.parameters.placement_mode = "dynamic" THEN {1, 20} ELSE {1}

NoUpdate == [n |-> 0]

InitStrategy ==
    /\ \E parameters \in ClassicParameterInputs : strategy = NewClassicStrategy(parameters)
    /\ upd = NoUpdate
    /\ portfolio = Unused /\ call = Unused /\ bt = Unused /\ twin = Unused /\ trig = Unused

UpdateInputs(u) ==
    [price_data |-> u.price_data, current_price |-> u.current_price,
     portfolio_value |-> u.portfolio_value]

DoUpdate(price_data, current_price, portfolio_value, force_update) ==
    LET Returns(u) ==
            /\ strategy' = u.strategy
            /\ upd' = [n |-> upd.n + 1, before |-> strategy,
                       price_data |-> price_data, current_price |-> current_price,
                       portfolio_value |-> portfolio_value, force_update |-> force_update,
                       ret |-> u.ret, triggered_names |-> u.triggered_names,
                       previous |-> IF upd.n = 0 THEN NoUpdate ELSE UpdateInputs(upd)]
    IN  Returns(ClassicStrategy_update(strategy, price_data, current_price,
                                       portfolio_value, force_update))

\* strategy.update(price_data, current_price, portfolio_value)
CallUpdate ==
    \E current_price \in StrategyPriceInputs, portfolio_value \in ValueInputs,
       t \in TimeInputs, n \in HistoryLengths(strategy) :
        DoUpdate(History(n, t, current_price), current_price, portfolio_value, FALSE)

\* strategy.update(price_data, current_price, portfolio_value, force_update=True)
CallForcedUpdate ==
    \E current_price \in StrategyPriceInputs :
        DoUpdate(History(1, 24, current_price), current_price, Money(1000000, 0), TRUE)

NextStrategy ==
    \/ upd.n < MaxUpdates /\ CallUpdate /\ UNCHANGED <<portfolio, call, bt, twin, trig>>
    \/ upd.n < MaxUpdates /\ CallForcedUpdate /\ UNCHANGED <<portfolio, call, bt, twin, trig>>

SpecStrategy == InitStrategy /\ [][NextStrategy]_vars

----------------------------------------------------------------------------
(* SpecVariants: a strategy of any of the seven classes, driven through    *)
(* update and reset.                                                       *)

\* recent_prices.std() / recent_prices.mean() > 0.05 over the last 10
\* closes: 400 * (sample variance) > mean^2
HighVolatility(price_data) ==
    LET recent_prices == Window(Column(price_data, "close"), 10)
        d == [k \in 1..10 |-> recent_prices[k] - recent_prices[1]]
        sum == SumSeq(d)
        squares == SumSeq([k \in 1..10 |-> d[k] * d[k]])
        mean == (10 * recent_prices[1] + sum) \div 10
    IN  400 * ((10 * squares - sum * sum) \div 90) > mean * mean

\* ImperfectClassicStrategy.update: the strategy after the call and the
\* returned flag
ImperfectClassicStrategy_update(self, price_data, current_price, portfolio_value) ==
    LET current_time == LastIndex(price_data)
        Refuse(s, d) == [strategy |-> [s EXCEPT !.drawn = d], ret |-> FALSE]
        Allow(s, d) ==
            [strategy |-> [s EXCEPT !.drawn = d, !.rebalance_count = @ + 1,
                                    !.last_rebalance_time = current_time,
                                    !.consecutive_failures = 0],
             ret |-> TRUE]
        \* 7. portfolio value-based inhibition
        Step7(s, d) ==
            IF MNonNeg(portfolio_value) /\ portfolio_value # MZero
            THEN IF random(d) < s.imperfection_level * 20
                 THEN Refuse(s, d + 1) ELSE Allow(s, d + 1)
            ELSE Allow(s, d)
        \* 6. price-based inhibition
        Step6(s, d) ==
            IF Len(price_data) > 10 /\ HighVolatility(price_data)
            THEN IF random(d) < 4000 THEN Refuse(s, d + 1) ELSE Step7(s, d + 1)
            ELSE Step7(s, d)
        \* 5. consecutive failure penalty
        Step5(s, d) ==
            IF s.consecutive_failures > 2
            THEN IF random(d) < Min(7000, s.consecutive_failures * 2000)
                 THEN Refuse(s, d + 1) ELSE Step6(s, d + 1)
            ELSE Step6(s, d)
        \* 4. sometimes ignore the trigger
        Step4(s, d) ==
            IF random(d) < s.forced_no_rebalance_chance * 80
            THEN Refuse(s, d + 1) ELSE Step5(s, d + 1)
        \* 3. minimum interval of 24 * (1 + 2 * imperfection_level) hours
        Step3(s, d) ==
            IF /\ s.last_rebalance_time # None /\ current_time # None
               /\ (current_time - s.last_rebalance_time) * 100
                      < 24 * (100 + 2 * s.imperfection_level)
            THEN Refuse(s, d) ELSE Step4(s, d)
        \* 2. forced periods; current_period < total_periods * 0.2 never holds
        Step2(s, d) ==
            IF current_time = None THEN Step3(s, d)
            ELSE IF random(d) < 1500
            THEN Refuse([s EXCEPT !.market_stress_mode = TRUE,
                                  !.forced_no_rebalance_periods = @ + 1], d + 1)
            ELSE IF s.market_stress_mode
            THEN IF random(d + 1) < 1000
                 THEN Step3([s EXCEPT !.market_stress_mode = FALSE], d + 2)
                 ELSE Step3(s, d + 2)
            ELSE Step3(s, d + 1)
        \* 1. random rebalancing failure
        Step1(s, d) ==
            IF random(d) < s.imperfection_level * 20
            THEN Refuse([s EXCEPT !.failed_rebalances = @ + 1,
                                  !.consecutive_failures = @ + 1], d + 1)
            ELSE Step2(s, d + 1)
        Gate(original) ==
            IF ~original.ret THEN original
            ELSE Step1(original.strategy, original.strategy.drawn)
                     @@ [triggered_names |-> original.triggered_names]
    IN  Gate(ClassicStrategy_update(self, price_data, current_price, portfolio_value,
                                    FALSE))

\* strategy.update of the strategy's class: ClassicStrategy overrides
\* update, the other classes inherit BaseStrategy.update
update(self, price_data, current_price, portfolio_value) ==
    IF self.name = "ClassicStrategy"
    THEN ClassicStrategy_update(self, price_data, current_price, portfolio_value, FALSE)
    ELSE IF self.name = "ImperfectClassicStrategy"
    THEN ImperfectClassicStrategy_update(self, price_data, current_price, portfolio_value)
    ELSE BaseStrategy_update(self, price_data, current_price, portfolio_value, FALSE)
             @@ [triggered_names |-> <<>>]

\* BaseStrategy.reset
BaseStrategy_reset(self) ==
    [self EXCEPT !.initialized = FALSE, !.current_ranges = <<>>,
                 !.current_liquidities = <<>>, !.last_update = None,
                 !.rebalance_count = 0]

\* TriggerBase.reset
TriggerBase_reset(trigger) ==
    [trigger EXCEPT !.last_triggered = None, !.trigger_count = 0]

\* TriggerManager.reset_all
reset_all(triggers) == [name \in DOMAIN triggers |-> TriggerBase_reset(triggers[name])]

\* strategy.reset of the strategy's class
reset(self) ==
    LET base == BaseStrategy_reset(self)
    IN  CASE self.name \in {"ClassicStrategy", "ImperfectClassicStrategy"} ->
                [base EXCEPT !.triggers = reset_all(@)]
          [] self.name = "ChannelMultiplierStrategy" -> base
          [] self.name \in {"BollingerStrategy", "KeltnerStrategy", "DonchianStrategy"} ->
                [base EXCEPT !.last_center = None, !.last_deviation = None,
                             !.last_upper = None, !.last_lower = None]
          [] self.name = "StableStrategy" ->
                [base EXCEPT !.last_peg = None, !.last_peg_timestamp = None]
          [] self.name = "FluidStrategy" ->
                [base EXCEPT !.current_ratio = None, !.current_state = "default",
                             !.last_rebalance_ratio = None]

MaxHistory == 2
MaxVariantUpdates == 2

\* closes at 2000 and at 2150
CloseInputs == {20000, 21500}

\* one strategy of each class; Bollinger also with several positions
VariantInputs ==
    {NewClassicStrategy(ClassicParameters("percent", 10, "center", 1)),
     NewChannelMultiplierStrategy([width_pct |-> 10]),
     NewBandStrategy("BollingerStrategy", [n |-> 2, k |-> 2, max_positions |-> 1]),
     NewBandStrategy("BollingerStrategy", [n |-> 2, k |-> 2, max_positions |-> 3]),
     NewBandStrategy("KeltnerStrategy", [n |-> 2, m |-> 2, max_positions |-> 1]),
     NewBandStrategy("DonchianStrategy",
                     [n |-> 2, width_multiplier |-> 10, max_positions |-> 1]),
     NewStableStrategy([peg_method |-> "sma", peg_period |-> 2, width_pct |-> 10,
                        curve_type |-> "gaussian", bin_count |-> 5, peg_offset |-> 0]),
     NewFluidStrategy([ideal_ratio |-> 10000, acceptable_ratio |-> 500,
                       rebalance_threshold |-> 1000, sprawl_type |-> "dynamic",
                       curve_type |-> "gaussian"])}

\* hourly bars with the given closes, each with high and low 10 USD off
\* the close; the empty history is among them
VariantHistories ==
    UNION {{[k \in 1..n |-> [timestamp |-> k - 1, close |-> closes[k],
                             high |-> closes[k] + 100, low |-> closes[k] - 100,
                             quote_volume |-> 10000]] :
               closes \in [1..n -> CloseInputs]} : n \in 0..MaxHistory}

\* draws that take the ratio 12% down (one-sided), nowhere, 6% up (unbalanced)
NormalDrawInputs == {-120, 0, 60}

InitVariants ==
    /\ strategy \in VariantInputs
    /\ upd = [op |-> "none", n |-> 0]
    /\ portfolio = Unused /\ call = Unused /\ bt = Unused /\ twin = Unused /\ trig = Unused

\* strategy.update(price_data, current_price, portfolio_value)
VariantUpdate ==
    /\ upd.n < MaxVariantUpdates
    /\ \E price_data \in VariantHistories,
          normal_draw \in IF strategy.name = "FluidStrategy" THEN NormalDrawInputs ELSE {0} :
          LET current_price == IF price_data = <<>> THEN 20000 ELSE Last(price_data).close
              self == IF strategy.name = "FluidStrategy"
                      THEN [strategy EXCEPT !.normal_draw = normal_draw] ELSE strategy
              Returns(u) ==
                  /\ strategy' = u.strategy
                  /\ upd' = [op |-> "update", n |-> upd.n + 1, before |-> self,
                             price_data |-> price_data, current_price |-> current_price,
                             ret |-> u.ret]
          IN  Returns(update(self, price_data, current_price, Money(1000000, 0)))

\* strategy.reset()
VariantReset ==
    /\ upd.op = "update"
    /\ strategy' = reset(strategy)
    /\ upd' = [op |-> "reset", n |-> 0, before |-> strategy]

NextVariants ==
    \/ VariantUpdate /\ UNCHANGED <<portfolio, call, bt, twin, trig>>
    \/ VariantReset /\ UNCHANGED <<portfolio, call, bt, twin, trig>>

SpecVariants == InitVariants /\ [][NextVariants]_vars

----------------------------------------------------------------------------
(* backtester.py: Backtester.run, one step at a time.  A run is the record *)
(* [bt, portfolio, strategy] of a Backtester and the objects it owns.      *)

\* Backtester._create_strategy: strategy_map[strategy_name](**strategy_params)
_create_strategy(strategy_name, strategy_params) ==
    CASE strategy_name \in {"classic", "classic_perfect", "classic_slight_imperfect",
                            "classic_moderate_imperfect", "classic_highly_imperfect"} ->
             NewClassicStrategy(strategy_params)
      [] strategy_name = "imperfect_classic" -> NewImperfectClassicStrategy(strategy_params)
      [] strategy_name = "channel_multiplier" -> NewChannelMultiplierStrategy(strategy_params)
      [] strategy_name = "bollinger" -> NewBandStrategy("BollingerStrategy", strategy_params)
      [] strategy_name = "keltner" -> NewBandStrategy("KeltnerStrategy", strategy_params)
      [] strategy_name = "donchian" -> NewBandStrategy("DonchianStrategy", strategy_params)
      [] strategy_name = "stable" -> NewStableStrategy(strategy_params)
      [] strategy_name = "fluid" -> NewFluidStrategy(strategy_params)

\* Backtester.__init__
NewBacktester(config) ==
    [bt |-> [config |-> config,
             hodl_portfolio |-> BaselinePortfolio(config.initial_cash.cents, "hodl_50_50"),
             single_asset_portfolio |->
                 BaselinePortfolio(config.initial_cash.cents, "single_asset"),
             price_data |-> <<>>, i |-> 0, should_rebalance |-> FALSE,
             pc |-> "new"],
     portfolio |-> NewPortfolio(config.initial_cash, config.fee_bps, config.gas_cost),
     strategy |-> _create_strategy(config.strategy, config.strategy_params)]

\* the bar of the loop, row of enumerate(price_data.iterrows())
Row(run) == run.bt.price_data[run.bt.i + 1]
\* price_data.iloc[:i+1]
Seen(run) == SubSeq(run.bt.price_data, 1, run.bt.i + 1)

\* fee accrual precedes the rebalance of the bar
next_step_fees_first(step, signalled) ==
    CASE step = "baselines" -> "update"
      [] step = "update" -> "fees"
      [] step = "fees" -> IF signalled THEN "rebalance" ELSE "record"
      [] step = "rebalance" -> "record"
      [] step = "record" -> "baselines"

\* the order of the statements of the loop body of Backtester.run
next_step(step, signalled) ==
    CASE step = "baselines" -> "update"
      [] step = "update" -> IF signalled THEN "rebalance" ELSE "fees"
      [] step = "rebalance" -> "fees"
      [] step = "fees" -> "record"
      [] step = "record" -> "baselines"

Goto(run, step) ==
    [run EXCEPT !.bt.pc = next_step(step, run.bt.should_rebalance)]

\* Backtester.run up to the loop: the empty check, the baselines'
\* initial positions, strategy.initialize(initial_price, initial_cash, price_data)
run_start(run, price_data) ==
    IF price_data = <<>>
    THEN [run EXCEPT !.bt.pc = "raised"]
    ELSE LET initial_price == price_data[1].close
         IN  [run EXCEPT
                 !.bt.price_data = price_data,
                 !.bt.hodl_portfolio = initialize_position(@, initial_price),
                 !.bt.single_asset_portfolio = initialize_position(@, initial_price),
                 !.strategy = initialize(@, initial_price,
                                         run.bt.config.initial_cash, price_data),
                 !.bt.pc = "baselines"]

\* the HODL baseline rebalanced at every bar
_update_baseline_portfolios_every_bar(run) ==
    Goto([run EXCEPT !.bt.hodl_portfolio = rebalance_to_50_50(@, Row(run).close)],
         "baselines")

\* Backtester._update_baseline_portfolios
_update_baseline_portfolios(run) ==
    Goto(IF run.bt.i % 24 = 0
         THEN [run EXCEPT !.bt.hodl_portfolio = rebalance_to_50_50(@, Row(run).close)]
         ELSE run,
         "baselines")

\* should_rebalance = self.strategy.update(price_data.iloc[:i+1], ...)
run_strategy_update(run) ==
    LET current_price == Row(run).close
        Returns(u) ==
            Goto([run EXCEPT !.strategy = u.strategy, !.bt.should_rebalance = u.ret],
                 "update")
    IN  Returns(update(run.strategy, Seen(run), current_price,
                       get_total_value(run.portfolio, current_price)))

\* if should_rebalance: strategy.calculate_range, portfolio.rebalance_positions
run_rebalance(run) ==
    LET current_price == Row(run).close
        Applied(rl, r) ==
            IF r.raised
            THEN [run EXCEPT !.bt.pc = "raised"]
            ELSE Goto([run EXCEPT !.portfolio = r.pf, !.strategy = rl[3]], "rebalance")
        Target(rl) ==
            Applied(rl, rebalance_positions(run.portfolio, rl[1], rl[2],
                                            current_price))
    IN  Target(calculate_range(run.strategy, Seen(run), current_price,
                               get_total_value(run.portfolio, current_price)))

\* if current_quote_volume > 0: portfolio.add_fees_to_positions
run_add_fees(run) ==
    Goto(IF Row(run).quote_volume > 0
         THEN [run EXCEPT !.portfolio =
                  add_fees_to_positions(@, Row(run).close, Row(run).quote_volume,
                                        run.bt.config.liq_share)]
         ELSE run,
         "fees")

\* a bar without volume leaves no point on the strategy's equity curve
run_record_equity_skipping_quiet(run) ==
    LET timestamp == Row(run).timestamp
        current_price == Row(run).close
        Advance(recorded) ==
            IF recorded.bt.i < Len(run.bt.price_data)
            THEN Goto(recorded, "record")
            ELSE [recorded EXCEPT !.bt.pc = "results"]
    IN  Advance([run EXCEPT
            !.portfolio = IF Row(run).quote_volume > 0
                          THEN record_equity_point(@, timestamp, current_price) ELSE @,
            !.bt.hodl_portfolio =
                BaselinePortfolio_record_equity_point(@, timestamp, current_price),
            !.bt.single_asset_portfolio =
                BaselinePortfolio_record_equity_point(@, timestamp, current_price),
            !.bt.i = @ + 1])

\* the three record_equity_point calls, and the loop's advance
run_record_equity(run) ==
    LET timestamp == Row(run).timestamp
        current_price == Row(run).close
        Advance(recorded) ==
            IF recorded.bt.i < Len(run.bt.price_data)
            THEN Goto(recorded, "record")
            ELSE [recorded EXCEPT !.bt.pc = "results"]
    IN  Advance([run EXCEPT
            !.portfolio = record_equity_point(@, timestamp, current_price),
            !.bt.hodl_portfolio =
                BaselinePortfolio_record_equity_point(@, timestamp, current_price),
            !.bt.single_asset_portfolio =
                BaselinePortfolio_record_equity_point(@, timestamp, current_price),
            !.bt.i = @ + 1])

\* self._calculate_results(price_data); return self.results
run_finish(run) == [run EXCEPT !.bt.pc = "returned"]

InLoop(run) ==
    run.bt.pc \in {"baselines", "update", "rebalance", "fees", "record"}

\* the statement at which the run stands
run_step(run) ==
    CASE run.bt.pc = "baselines" -> _update_baseline_portfolios(run)
      [] run.bt.pc = "update" -> run_strategy_update(run)
      [] run.bt.pc = "rebalance" -> run_rebalance(run)
      [] run.bt.pc = "fees" -> run_add_fees(run)
      [] run.bt.pc = "record" -> run_record_equity(run)
      [] run.bt.pc = "results" -> run_finish(run)
      [] OTHER -> run

\* one pass through the loop body: from the head of the loop to the head
\* of the next iteration, or out of the loop
RECURSIVE run_rest_of_bar(_)
run_rest_of_bar(run) ==
    IF InLoop(run) /\ run.bt.pc # "baselines"
    THEN run_rest_of_bar(run_step(run))
    ELSE run
run_bar(run) == run_rest_of_bar(run_step(run))

----------------------------------------------------------------------------
(* SpecBacktest: one Backtester, run once over a bar sequence, statement   *)
(* by statement.                                                           *)

MaxBars == 3
LongLen == 25

VolumeInputs == {0, 10000}

\* hourly bars from timestamp 0 on, with the given closes and volumes
Bars(closes, volumes) ==
    [k \in 1..Len(closes) |->
        [timestamp |-> k - 1, close |-> closes[k], quote_volume |-> volumes[k]]]

\* every bar sequence of up to MaxBars bars (the empty one included), and
\* LongLen bars at 2000 of which the last may close at 2150 or at 1930
PriceDataInputs ==
    UNION {{Bars(closes, volumes) : closes \in [1..n -> CloseInputs],
                                    volumes \in [1..n -> VolumeInputs]} : n \in 0..MaxBars}
    \cup {History(LongLen, LongLen - 1, c) : c \in CloseInputs \cup {19300}}

\* 10,000 USD, fee_bps 5, no gas, liq_share 0.002; a single position and
\* several, placed at the price, a single one placed at the moving average,
\* and a single one recentered
ConfigInputs ==
    {[strategy |-> "classic", strategy_params |-> strategy_params,
      initial_cash |-> Money(1000000, 0),
      fee_bps |-> 5, gas_cost |-> MZero, liq_share |-> 2] :
        strategy_params \in {ClassicParameters("percent", 10, "center", 1),
                             ClassicParameters("percent", 10, "center", 5),
                             ClassicParameters("percent", 10, "dynamic", 1),
                             ClassicParameters("percent", 10, "recenter", 1)}}

Here == [bt |-> bt, portfolio |-> portfolio, strategy |-> strategy]
Become(run) ==
    /\ bt' = run.bt /\ portfolio' = run.portfolio /\ strategy' = run.strategy
    /\ UNCHANGED <<call, upd, trig>>

InitBacktest ==
    /\ \E config \in ConfigInputs :
          LET run == NewBacktester(config)
          IN  bt = run.bt /\ portfolio = run.portfolio /\ strategy = run.strategy
    /\ call = Unused /\ upd = Unused /\ twin = Unused /\ trig = Unused

\* backtester.run(price_data), up to the loop
Run ==
    /\ bt.pc = "new"
    /\ \E price_data \in PriceDataInputs : Become(run_start(Here, price_data))
UpdateBaselines == bt.pc = "baselines" /\ Become(_update_baseline_portfolios(Here))
StrategyUpdate == bt.pc = "update" /\ Become(run_strategy_update(Here))
Rebalance == bt.pc = "rebalance" /\ Become(run_rebalance(Here))
AddFees == bt.pc = "fees" /\ Become(run_add_fees(Here))
RecordEquity == bt.pc = "record" /\ Become(run_record_equity(Here))
Finish == bt.pc = "results" /\ Become(run_finish(Here))

NextBacktest ==
    \/ Run /\ UNCHANGED <<twin, trig>>
    \/ UpdateBaselines /\ UNCHANGED <<twin, trig>>
    \/ StrategyUpdate /\ UNCHANGED <<twin, trig>>
    \/ Rebalance /\ UNCHANGED <<twin, trig>>
    \/ AddFees /\ UNCHANGED <<twin, trig>>
    \/ RecordEquity /\ UNCHANGED <<twin, trig>>
    \/ Finish /\ UNCHANGED <<twin, trig>>

SpecBacktest == InitBacktest /\ [][NextBacktest]_vars

----------------------------------------------------------------------------
(* SpecPair: two Backtesters of the same configuration, each run over its  *)
(* own bar sequence, advanced together one bar at a time.                  *)

\* the non-empty bar sequences, all with volume
PairDataInputs ==
    {price_data \in PriceDataInputs :
        /\ price_data # <<>>
        /\ \A k \in 1..Len(price_data) : price_data[k].quote_volume > 0}

InitPair ==
    /\ \E config \in ConfigInputs :
          LET run == NewBacktester(config)
          IN  /\ bt = run.bt /\ portfolio = run.portfolio /\ strategy = run.strategy
              /\ twin = run
    /\ call = Unused /\ upd = Unused /\ trig = Unused

PairRun ==
    /\ bt.pc = "new"
    /\ \E price_data \in PairDataInputs, twin_data \in PairDataInputs :
          /\ Become(run_start(Here, price_data))
          /\ twin' = run_start(twin, twin_data)

PairBar ==
    /\ InLoop(Here) /\ InLoop(twin)
    /\ Become(run_bar(Here))
    /\ twin' = run_bar(twin)

NextPair == PairRun \/ PairBar

SpecPair == InitPair /\ [][NextPair]_vars

----------------------------------------------------------------------------
(* Claims about Portfolio.rebalance_positions *)

Rebalanced == call.op = "rebalance_positions" /\ ~call.raised
RebalanceRaised == call.op = "rebalance_positions" /\ call.raised

\* C1 (as claimed): the total value right after a rebalance is the total
\* value right before it, at the same price, minus the cost the call
\* returned -- never more, never less.
C1_ValueConservedUpToCost ==
    Rebalanced =>
        get_total_value(portfolio, call.current_price)
            = MSub(get_total_value(call.before, call.current_price), call.cost)

\* The cost the specification prescribes: the sum over the new positions
\* of value * fee_bps / 10000, plus gas_cost
PrescribedCost ==
    MAdd(MSum([k \in 1..Len(portfolio.positions) |->
                 CreationCost(portfolio, portfolio.positions[k], call.current_price)]),
         portfolio.gas_cost)

\* C6 (as claimed): rebalance_positions returns the prescribed cost and
\* debits cash by exactly the returned amount, after crediting the value
\* and accrued fees of the liquidated positions, for every gas_cost >= 0.
C6_CashDebitedByReturnedCost ==
    Rebalanced =>
        /\ call.cost = PrescribedCost
        /\ portfolio.cash =
             MSub(MAdd(call.before.cash,
                       MSum(PositionTotals(call.before.positions, call.current_price))),
                  call.cost)

\* C7: when rebalance_positions returns, the positions are exactly one new
\* Position per (range, liquidity) pair, in input order, each with zero
\* accrued fees (so none of the old positions remains); when it raises, the
\* positions and the cash are exactly those before the call.
C7_RebalanceAtomic ==
    /\ Rebalanced =>
         /\ Len(portfolio.positions) = Len(call.new_ranges)
         /\ \A k \in 1..Len(call.new_ranges) :
              /\ portfolio.positions[k].lower_price = call.new_ranges[k][1]
              /\ portfolio.positions[k].upper_price = call.new_ranges[k][2]
              /\ portfolio.positions[k].liquidity = call.new_liquidities[k]
              /\ portfolio.positions[k].fees_earned = MZero
    /\ RebalanceRaised =>
         /\ portfolio.positions = call.before.positions
         /\ portfolio.cash = call.before.cash

\* a rebalance that replaced fee-carrying positions by new ones
C7_WitnessReplaced ==
    /\ Rebalanced
    /\ call.new_ranges # <<>>
    /\ \E k \in 1..Len(call.before.positions) :
         call.before.positions[k].fees_earned # MZero

\* a rebalance that raised on a portfolio holding positions
C7_WitnessRaised ==
    RebalanceRaised /\ call.before.positions # <<>>

----------------------------------------------------------------------------
(* Claims about ClassicStrategy.update *)

Updated == upd.n > 0
RangesReplacedBy(u, s) ==
    LET rl == calculate_range(u.before, u.price_data, u.current_price, u.portfolio_value)
    IN  s.current_ranges = rl[1] /\ s.current_liquidities = rl[2]

\* C3 (as claimed): for an initialized ClassicStrategy, whenever a trigger
\* fires during an update call, the call returns True and the current
\* ranges and liquidities are those freshly generated from the current price.
C3_FiredTriggerRebalances ==
    (Updated /\ upd.before.initialized /\ upd.triggered_names # <<>>) =>
        upd.ret /\ RangesReplacedBy(upd, strategy)

\* C10 (as claimed): an update call that repeats the inputs (history, price,
\* portfolio value) of the immediately preceding update call returns False
\* and leaves current ranges, current liquidities and rebalance_count unchanged.
Repeated == upd.n > 1 /\ ~upd.force_update /\ upd.previous = UpdateInputs(upd)
WidthSpan(self, price_data, current_price) ==
    LET c == _calculate_center_price(self, price_data, current_price)
        w == _calculate_width(self, current_price)
    IN  <<c - (c * w) \div 20000, c + (c * w) \div 20000>>

\* C8 (as claimed): after an update that signalled a rebalance, the Classic
\* policy's range is [c(1 - w/200), c(1 + w/200)] for the center c and the
\* width w of that update; with width 10% at 2000 it is (1900, 2100) and
\* after the move to 2150 it is (2042.5, 2257.5).
C8_RangeSpansWidth ==
    (Updated /\ upd.ret) =>
        LET span == WidthSpan(upd.before, upd.price_data, upd.current_price)
            n == Len(strategy.current_ranges)
        IN  /\ n > 0
            /\ strategy.current_ranges[1][1] = span[1]
            /\ strategy.current_ranges[n][2] = span[2]

----------------------------------------------------------------------------
(* Claims about Backtester.run *)

\* the fee a bar brings to a position: quote_volume * liq_share * 5%,
\* to a position in range at the close, when there is volume
BarFee(bar, position, liq_share) ==
    IF bar.quote_volume > 0 /\ is_in_range(position, bar.close)
    THEN Money((bar.quote_volume * liq_share * position.fee_tier_bps) \div 100000, 0)
    ELSE MZero

\* C2 (as claimed): bar 0 forces the first rebalance: when the equity point
\* of bar 0 is about to be recorded, the update of bar 0 has signalled a
\* rebalance and the portfolio holds positions, with rebalance_count = 1.
C2_BarZeroRebalances ==
    (bt.pc = "record" /\ bt.i = 0) =>
        /\ bt.should_rebalance
        /\ portfolio.positions # <<>>
        /\ portfolio.rebalance_count = 1

\* the equity point recorded for the previous bar
LastPoint == portfolio.equity_curve[Len(portfolio.equity_curve)]

\* C4: the steps of a bar happen in the order baseline step, update,
\* rebalance, fee accrual, equity recording.  When the equity point of a
\* bar with a rebalance is about to be recorded, every open position
\* carries exactly this bar's fee (the positions opened by the rebalance
\* received it), and the cash holds what was recorded for the previous bar
\* plus the fees the liquidated positions had earned by then (they received
\* nothing from this bar); the three equity curves have one point per
\* completed bar, and the point recorded includes the bar's fees.
C4_StepOrder ==
    /\ (bt.pc = "record" /\ bt.should_rebalance) =>
          /\ \A k \in 1..Len(portfolio.positions) :
                portfolio.positions[k].fees_earned =
                    BarFee(Row(Here), portfolio.positions[k], bt.config.liq_share)
          /\ portfolio.cash.cents =
                IF bt.i = 0 THEN bt.config.initial_cash.cents
                ELSE LastPoint.cash.cents + LastPoint.fees_earned.cents
    /\ InLoop(Here) =>
          /\ Len(portfolio.equity_curve) = bt.i
          /\ Len(bt.hodl_portfolio.equity_curve) = bt.i
          /\ Len(bt.single_asset_portfolio.equity_curve) = bt.i
    /\ (bt.pc = "baselines" /\ bt.i > 0) =>
          LastPoint.fees_earned =
              MSum([k \in 1..Len(portfolio.positions) |->
                       portfolio.positions[k].fees_earned])

\* a bar whose rebalance liquidated positions that had earned fees and
\* opened positions that earned this bar's fee
C4_WitnessFeesAfterRebalance ==
    /\ bt.pc = "record" /\ bt.should_rebalance /\ bt.i > 0
    /\ LastPoint.fees_earned.cents > 0
    /\ \E k \in 1..Len(portfolio.positions) :
          portfolio.positions[k].fees_earned.cents > 0

\* the two bar sequences agree on bars 0..i
AgreeThrough(price_data, twin_data, i) ==
    /\ Len(price_data) > i /\ Len(twin_data) > i
    /\ SubSeq(price_data, 1, i + 1) = SubSeq(twin_data, 1, i + 1)

\* C5 (as claimed): no lookahead: two runs of the same configuration over
\* bar sequences that agree on the bars processed so far (on bar 0, before
\* the first bar is processed) have made the same decisions: the same
\* trigger state, rebalance decision, ranges and liquidities, and positions.
C5_NoLookahead ==
    (/\ bt.pc # "new" /\ bt.i = twin.bt.i
     /\ AgreeThrough(bt.price_data, twin.bt.price_data, Max(bt.i - 1, 0))) =>
        /\ strategy = twin.strategy
        /\ bt.should_rebalance = twin.bt.should_rebalance
        /\ portfolio.positions = twin.portfolio.positions

----------------------------------------------------------------------------
(* Claims about the first update of a strategy *)

C9_WitnessVariant ==
    /\ upd.op = "update" /\ ~upd.before.initialized /\ upd.ret
    /\ upd.before.name = "StableStrategy"
    /\ Len(upd.price_data) = MaxHistory
    /\ Len(strategy.current_ranges) = 5

----------------------------------------------------------------------------
(* Claims about the triggers' verdict                                      *)

\* C11: for an initialized ClassicStrategy called without force_update, if
\* no registered trigger fires, update returns False and current_ranges,
\* current_liquidities, rebalance_count and last_update are unchanged.
NoTriggerFired ==
    Updated /\ upd.before.initialized /\ ~upd.force_update /\ upd.triggered_names = <<>>
C11_NoTriggerHolds ==
    NoTriggerFired =>
        /\ ~upd.ret
        /\ strategy.current_ranges = upd.before.current_ranges
        /\ strategy.current_liquidities = upd.before.current_liquidities
        /\ strategy.rebalance_count = upd.before.rebalance_count
        /\ strategy.last_update = upd.before.last_update

\* no trigger fired although the portfolio value, and with it the
\* liquidity the curve would hand out, is twenty times what it was
C11_WitnessQuietDespiteValue ==
    /\ NoTriggerFired /\ ~upd.ret
    /\ upd.previous # NoUpdate
    /\ upd.previous.portfolio_value # upd.portfolio_value

----------------------------------------------------------------------------
(* SpecTwins: two Backtesters of the same configuration run over the same  *)
(* bars, one execution after the other, statement by statement.  The value *)
(* np.random.normal returns to FluidStrategy._estimate_current_ratio is    *)
(* drawn afresh at every statement that calls calculate_range.             *)

MaxTwinBars == 2

\* the bar sequences of one to MaxTwinBars bars, all with volume
TwinDataInputs ==
    UNION {{Bars(closes, [k \in 1..n |-> 10000]) : closes \in [1..n -> CloseInputs]} :
              n \in 1..MaxTwinBars}

\* a Classic, a Bollinger and a Fluid policy (ideal_ratio 1.0,
\* acceptable_ratio 0.01, rebalance_threshold 0.1)
TwinConfigInputs ==
    {[strategy |-> c[1], strategy_params |-> c[2], initial_cash |-> Money(1000000, 0),
      fee_bps |-> 5, gas_cost |-> MZero, liq_share |-> 2] :
        c \in {<<"classic", ClassicParameters("percent", 10, "center", 1)>>,
               <<"bollinger", [n |-> 2, k |-> 2, max_positions |-> 3]>>,
               <<"fluid", [ideal_ratio |-> 10000, acceptable_ratio |-> 100,
                           rebalance_threshold |-> 1000, sprawl_type |-> "dynamic",
                           curve_type |-> "gaussian"]>>}}

\* draws of np.random.normal(0, 0.01): two standard deviations down,
\* none, two up (in thousandths)
TwinDrawInputs == {-20, 0, 20}

\* the draws the statement at which the run stands may see
DrawsAt(run) ==
    IF run.strategy.name = "FluidStrategy" /\ run.bt.pc \in {"update", "rebalance"}
    THEN TwinDrawInputs ELSE {0}

WithDraw(run, draw) ==
    IF run.strategy.name = "FluidStrategy"
    THEN [run EXCEPT !.strategy.normal_draw = draw] ELSE run

Over(run) == run.bt.pc \in {"returned", "raised"}

InitTwins ==
    /\ \E config \in TwinConfigInputs :
          LET Both(run) ==
                  /\ bt = run.bt /\ portfolio = run.portfolio /\ strategy = run.strategy
                  /\ twin = run
          IN  Both(NewBacktester(config))
    /\ call = Unused /\ upd = Unused /\ trig = Unused

\* backtester.run(price_data) of both, up to the loop
TwinRun ==
    /\ bt.pc = "new"
    /\ \E price_data \in TwinDataInputs :
          /\ Become(run_start(Here, price_data))
          /\ twin' = run_start(twin, price_data)

\* a statement of the first execution
FirstStep ==
    /\ bt.pc # "new" /\ ~Over(Here)
    /\ \E draw \in DrawsAt(Here) : Become(run_step(WithDraw(Here, draw)))
    /\ UNCHANGED <<twin, trig>>

\* a statement of the second execution, the first being over
SecondStep ==
    /\ Over(Here) /\ ~Over(twin)
    /\ \E draw \in DrawsAt(twin) : twin' = run_step(WithDraw(twin, draw))
    /\ UNCHANGED <<bt, portfolio, strategy, call, upd, trig>>

NextTwins == TwinRun \/ FirstStep \/ SecondStep

SpecTwins == InitTwins /\ [][NextTwins]_vars

\* C12 (as claimed): two executions of Backtester.run with equal bars,
\* strategy configuration, cost configuration and initial cash produce
\* identical rebalance decisions, identical equity curves and identical
\* transaction histories, for every strategy variant.
C12_RunsDeterministic ==
    (/\ bt.pc = "returned" /\ twin.bt.pc = "returned"
     /\ bt.config = twin.bt.config /\ bt.price_data = twin.bt.price_data) =>
        /\ strategy.rebalance_count = twin.strategy.rebalance_count
        /\ portfolio.equity_curve = twin.portfolio.equity_curve
        /\ portfolio.transaction_history = twin.portfolio.transaction_history

----------------------------------------------------------------------------
(* triggers.py: the trigger objects on their own, a CompositeTrigger and   *)
(* a TriggerManager over any registered triggers.  A trigger is a record   *)
(* with its class in the field kind.                                       *)

\* GapFromCenterTrigger.__init__, with gap_bps given
NewGapFromCenterTrigger(gap_bps) ==
    [kind |-> "GapFromCenterTrigger", gap_bps |-> gap_bps] @@ TriggerBase

\* RangeInactiveTrigger.__init__
NewRangeInactiveTrigger == [kind |-> "RangeInactiveTrigger"] @@ TriggerBase

\* PercentDriftTrigger.__init__
NewPercentDriftTrigger(drift_threshold_pct) ==
    [kind |-> "PercentDriftTrigger", drift_threshold_pct |-> drift_threshold_pct,
     last_position_value |-> NoneValue] @@ TriggerBase

\* ElapsedTimeTrigger.__init__; time_delta in hours
NewElapsedTimeTrigger(time_delta) ==
    [kind |-> "ElapsedTimeTrigger", time_delta |-> time_delta] @@ TriggerBase

\* CompositeTrigger.__init__, the operator being "AND" or "OR"
NewCompositeTrigger(triggers, operator) ==
    [kind |-> "CompositeTrigger", triggers |-> triggers, operator |-> operator]
        @@ TriggerBase

\* trigger.should_trigger(current_state) of the trigger's class, for the
\* classes without children: the result and the trigger after the call
should_trigger(trigger, current_state) ==
    CASE trigger.kind = "GapFromCenterTrigger" ->
             [fired |-> GapFromCenterTrigger_should_trigger(trigger.gap_bps, current_state),
              trigger |-> trigger]
      [] trigger.kind = "RangeInactiveTrigger" ->
             [fired |-> RangeInactiveTrigger_should_trigger(current_state),
              trigger |-> trigger]
      [] trigger.kind = "PercentDriftTrigger" ->
             PercentDriftTrigger_should_trigger(trigger, trigger.drift_threshold_pct,
                                                current_state)
      [] trigger.kind = "ElapsedTimeTrigger" ->
             ElapsedTimeTrigger_should_trigger(trigger, trigger.time_delta, current_state)

\* CompositeTrigger.should_trigger: every child is evaluated, then all()
\* or any() of the results
CompositeTrigger_should_trigger(trigger, current_state) ==
    LET Combined(trigger_results) ==
            [fired |-> IF trigger.operator = "AND"
                       THEN \A k \in 1..Len(trigger_results) : trigger_results[k].fired
                       ELSE \E k \in 1..Len(trigger_results) : trigger_results[k].fired,
             trigger |-> [trigger EXCEPT !.triggers =
                             [k \in 1..Len(trigger_results) |-> trigger_results[k].trigger]]]
    IN  Combined([k \in 1..Len(trigger.triggers) |->
                     should_trigger(trigger.triggers[k], current_state)])

\* trigger.should_trigger(current_state) of any registered trigger
registered_should_trigger(trigger, current_state) ==
    IF trigger.kind = "CompositeTrigger"
    THEN CompositeTrigger_should_trigger(trigger, current_state)
    ELSE should_trigger(trigger, current_state)

\* TriggerManager.__init__ and add_trigger: names in registration order
NewTriggerManager == [names |-> <<>>, triggers |-> <<>>]
add_trigger(manager, name, trigger) ==
    [names |-> IF name \in DOMAIN manager.triggers THEN manager.names
               ELSE Append(manager.names, name),
     triggers |-> (name :> trigger) @@ manager.triggers]

\* TriggerManager.should_trigger_any: whether any fired, the names of those
\* that fired in registration order, and the manager after the call
TriggerManager_should_trigger_any(manager, current_state) ==
    LET Collected(results) ==
            [should_trigger |-> \E k \in 1..Len(manager.names) :
                                    results[manager.names[k]].fired,
             triggered_names |-> SelectSeq(manager.names,
                                           LAMBDA name : results[name].fired),
             manager |-> [manager EXCEPT !.triggers =
                 [name \in DOMAIN manager.triggers |->
                     MarkTriggered(results[name].fired, results[name].trigger,
                                   current_state)]]]
    IN  Collected([name \in DOMAIN manager.triggers |->
                      registered_should_trigger(manager.triggers[name], current_state)])

----------------------------------------------------------------------------
(* SpecTriggers: a TriggerManager with a gap, a drift and a time trigger   *)
(* and a CompositeTrigger registered, and an ElapsedTimeTrigger and a      *)
(* PercentDriftTrigger called on their own, through at most                *)
(* MaxTriggerCalls calls at timestamps that never go back.                 *)

MaxTriggerCalls == 3

\* CompositeTrigger([RangeInactiveTrigger(), ElapsedTimeTrigger(24h)], operator)
CompositeInputs ==
    {NewCompositeTrigger(<<NewRangeInactiveTrigger, NewElapsedTimeTrigger(24)>>, operator) :
        operator \in {"AND", "OR"}}

RegisteredTriggers(composite) ==
    add_trigger(add_trigger(add_trigger(add_trigger(NewTriggerManager,
        "gap_from_center", NewGapFromCenterTrigger(100)),
        "percent_drift", NewPercentDriftTrigger(5)),
        "time_elapsed", NewElapsedTimeTrigger(24)),
        "composite", composite)

\* a position (1900, 2100); the price at its center or above it; a value
\* of 10,000 USD or 11,000 USD; 0, 12 or 24 hours after the previous call
StateInputs(now) ==
    {[current_price |-> current_price, twice_position_center |-> 40000,
      lower_price |-> 19000, upper_price |-> 21000,
      position_value |-> position_value, current_timestamp |-> now + hours] :
        current_price \in {20000, 21500},
        position_value \in {Money(1000000, 0), Money(1100000, 0)},
        hours \in {0, 12, 24}}

\* the timestamp at which each ElapsedTimeTrigger last returned True
NeverFired == [registered |-> None, child |-> None, lone |-> None]

InitTriggers ==
    /\ \E composite \in CompositeInputs :
          trig = [manager |-> RegisteredTriggers(composite),
                  elapsed |-> NewElapsedTimeTrigger(24),
                  drift |-> NewPercentDriftTrigger(5)]
    /\ call = [op |-> "none", n |-> 0, now |-> 0, fired_at |-> NeverFired]
    /\ portfolio = Unused /\ strategy = Unused /\ upd = Unused
    /\ bt = Unused /\ twin = Unused

\* the record of a call: its inputs, its result, and the objects before it
Called(op, current_state, ret, triggered_names, fired_at) ==
    [op |-> op, n |-> call.n + 1, now |-> current_state.current_timestamp,
     before |-> trig, current_state |-> current_state,
     ret |-> ret, triggered_names |-> triggered_names,
     fired_before |-> call.fired_at, fired_at |-> fired_at]

\* the ElapsedTimeTrigger that is a child of the registered composite
Child(manager) == manager.triggers["composite"].triggers[2]

\* trigger_manager.should_trigger_any(current_state)
ManagerCall ==
    \E current_state \in StateInputs(call.now) :
        LET Returns(r) ==
                /\ trig' = [trig EXCEPT !.manager = r.manager]
                /\ call' = Called("should_trigger_any", current_state,
                       r.should_trigger, r.triggered_names,
                       [call.fired_at EXCEPT
                          !.registered =
                              IF \E k \in 1..Len(r.triggered_names) :
                                     r.triggered_names[k] = "time_elapsed"
                              THEN current_state.current_timestamp ELSE @,
                          !.child =
                              IF should_trigger(Child(trig.manager), current_state).fired
                              THEN current_state.current_timestamp ELSE @])
        IN  Returns(TriggerManager_should_trigger_any(trig.manager, current_state))

\* elapsed_time_trigger.should_trigger(current_state)
ElapsedCall ==
    \E current_state \in StateInputs(call.now) :
        LET Returns(r) ==
                /\ trig' = [trig EXCEPT !.elapsed = r.trigger]
                /\ call' = Called("ElapsedTimeTrigger.should_trigger", current_state,
                       r.fired, <<>>,
                       [call.fired_at EXCEPT
                          !.lone = IF r.fired THEN current_state.current_timestamp ELSE @])
        IN  Returns(should_trigger(trig.elapsed, current_state))

\* percent_drift_trigger.should_trigger(current_state)
DriftCall ==
    \E current_state \in StateInputs(call.now) :
        LET Returns(r) ==
                /\ trig' = [trig EXCEPT !.drift = r.trigger]
                /\ call' = Called("PercentDriftTrigger.should_trigger", current_state,
                                  r.fired, <<>>, call.fired_at)
        IN  Returns(should_trigger(trig.drift, current_state))

NextTriggers ==
    \/ call.n < MaxTriggerCalls /\ ManagerCall
           /\ UNCHANGED <<portfolio, strategy, upd, bt, twin>>
    \/ call.n < MaxTriggerCalls /\ ElapsedCall
           /\ UNCHANGED <<portfolio, strategy, upd, bt, twin>>
    \/ call.n < MaxTriggerCalls /\ DriftCall
           /\ UNCHANGED <<portfolio, strategy, upd, bt, twin>>

SpecTriggers == InitTriggers /\ [][NextTriggers]_vars

----------------------------------------------------------------------------
(* Claims about the triggers                                               *)

\* what TriggerManager.should_trigger_any owes a trigger: fired, its
\* trigger_count is one more and its last_triggered the call's timestamp;
\* not fired, both are what they were
Bookkept(before, after, fired, current_state) ==
    IF fired
    THEN /\ after.trigger_count = before.trigger_count + 1
         /\ after.last_triggered = current_state.current_timestamp
    ELSE /\ after.trigger_count = before.trigger_count
         /\ after.last_triggered = before.last_triggered

\* C13 (as claimed): should_trigger_any returns true iff at least one
\* registered trigger fired, returns exactly the names of the fired
\* triggers in registration order, and every trigger that fired, a child of
\* a CompositeTrigger included, has its trigger_count increased by one and
\* its last_triggered set to the call's timestamp, while the counters and
\* timestamps of the triggers that did not fire are unchanged.
C13_FiredTriggersBookkept ==
    call.op = "should_trigger_any" =>
        LET before == call.before.manager
            Fired(name) ==
                registered_should_trigger(before.triggers[name], call.current_state).fired
            composite == before.triggers["composite"]
        IN  /\ call.ret = (\E k \in 1..Len(before.names) : Fired(before.names[k]))
            /\ call.triggered_names = SelectSeq(before.names, Fired)
            /\ \A name \in DOMAIN before.triggers :
                   Bookkept(before.triggers[name], trig.manager.triggers[name],
                            Fired(name), call.current_state)
            /\ \A k \in 1..Len(composite.triggers) :
                   Bookkept(composite.triggers[k],
                            trig.manager.triggers["composite"].triggers[k],
                            should_trigger(composite.triggers[k], call.current_state).fired,
                            call.current_state)

\* C14 (as claimed): after an ElapsedTimeTrigger fired at timestamp t, it
\* returns False on every later call whose timestamp is below
\* t + time_delta and True on the first call at or after t + time_delta,
\* whether it is evaluated directly, through TriggerManager, or as a child
\* of a CompositeTrigger.
FiresWhenDue(fired_at, time_delta, fired) ==
    fired_at # None => (fired <=> call.current_state.current_timestamp >= fired_at + time_delta)
C14_ElapsedSinceLastFire ==
    /\ call.op = "ElapsedTimeTrigger.should_trigger" =>
           FiresWhenDue(call.fired_before.lone, call.before.elapsed.time_delta, call.ret)
    /\ call.op = "should_trigger_any" =>
           /\ FiresWhenDue(call.fired_before.registered,
                  call.before.manager.triggers["time_elapsed"].time_delta,
                  \E k \in 1..Len(call.triggered_names) :
                      call.triggered_names[k] = "time_elapsed")
           /\ FiresWhenDue(call.fired_before.child, Child(call.before.manager).time_delta,
                  should_trigger(Child(call.before.manager), call.current_state).fired)

\* C15 (as claimed): a PercentDriftTrigger's last_position_value is left
\* unchanged by every call that returns False and becomes the call's
\* position_value on every call that returns True.
C15_DriftMemoryOnlyOnFire ==
    call.op = "PercentDriftTrigger.should_trigger" =>
        trig.drift.last_position_value =
            IF call.ret THEN call.current_state.position_value
            ELSE call.before.drift.last_position_value

----------------------------------------------------------------------------
(* Claims about the equity curves and the baselines                        *)

\* the curve has one point per bar processed so far, the k-th carrying the
\* timestamp and the close of bar k
OnePointPerBar(equity_curve) ==
    /\ Len(equity_curve) = bt.i
    /\ \A k \in 1..Len(equity_curve) :
           /\ equity_curve[k].timestamp = bt.price_data[k].timestamp
           /\ equity_curve[k].price = bt.price_data[k].close

\* C16: after Backtester.run over n bars the strategy, HODL-50:50 and
\* single-asset equity curves each contain exactly n points, the k-th
\* carrying the timestamp and close of bar k (and during the run, one per
\* bar processed so far).
C16_OneEquityPointPerBar ==
    /\ bt.pc \notin {"new", "raised"} =>
           /\ OnePointPerBar(portfolio.equity_curve)
           /\ OnePointPerBar(bt.hodl_portfolio.equity_curve)
           /\ OnePointPerBar(bt.single_asset_portfolio.equity_curve)
    /\ bt.pc = "returned" => bt.i = Len(bt.price_data)

\* a finished run over several bars, one of them without volume, during
\* which the portfolio was rebalanced
C16_WitnessFinishedRun ==
    /\ bt.pc = "returned"
    /\ Len(bt.price_data) = MaxBars
    /\ \E k \in 1..Len(bt.price_data) : bt.price_data[k].quote_volume = 0
    /\ portfolio.transaction_history # <<>>
    /\ Len(portfolio.equity_curve) = MaxBars

Holdings(bp) == <<bp.amount0, bp.amount1>>

\* C17: once the run has initialized the baselines, the HODL-50:50
\* baseline's (amount0, amount1) change only on bars whose index is a
\* multiple of 24, and the single-asset baseline's holdings never change.
C17_BaselineCadence ==
    [][bt.pc # "new" =>
          /\ Holdings(bt.hodl_portfolio)' # Holdings(bt.hodl_portfolio) => bt.i % 24 = 0
          /\ Holdings(bt.single_asset_portfolio)' = Holdings(bt.single_asset_portfolio)
      ]_vars

\* the run stands behind the baseline update of bar 24, which changed the
\* HODL baseline's holdings of bars 0 to 23; the single-asset baseline holds
\* what it bought
C17_WitnessDailyRebalance ==
    /\ bt.pc = "update" /\ bt.i = 24
    /\ Holdings(bt.hodl_portfolio) #
           <<bt.hodl_portfolio.equity_curve[24].amount0,
             bt.hodl_portfolio.equity_curve[24].amount1>>
    /\ bt.hodl_portfolio.equity_curve[2].amount0 = bt.hodl_portfolio.equity_curve[24].amount0
    /\ bt.single_asset_portfolio.amount0 > 0

----------------------------------------------------------------------------
(* Construction: what Backtester.__init__ and ClassicStrategy.__init__     *)
(* check of a configuration, and what is left to raise ValueError later.   *)

\* BaseStrategy._validate_parameters raises: a required parameter is missing
_validate_parameters_raises(parameters, required_params) ==
    \E k \in 1..Len(required_params) : required_params[k] \notin DOMAIN parameters

\* BaseStrategy._get_parameter
_get_parameter(parameters, name, default) ==
    IF name \in DOMAIN parameters THEN parameters[name] ELSE default

\* CurveFactory.create_curve raises: the type is no key of CurveFactory._curves
create_curve_raises(curve_type) ==
    curve_type \notin {"linear", "gaussian", "sigmoid", "logarithmic", "bid_ask", "uniform"}

\* ClassicStrategy.__init__ raises
ClassicStrategy_init_raises(parameters) ==
    \/ _validate_parameters_raises(parameters,
                                   <<"width_mode", "width_value", "placement_mode">>)
    \/ create_curve_raises(_get_parameter(parameters, "curve_type", "uniform"))

\* the names of strategy_map that stand for ClassicStrategy
ClassicNames ==
    {"classic", "classic_perfect", "classic_slight_imperfect",
     "classic_moderate_imperfect", "classic_highly_imperfect"}

\* Backtester.__init__ raises, for the names of ClassicStrategy:
\* _create_strategy finds no such name, or the strategy's __init__ raises
Backtester_init_raises(config) ==
    \/ config.strategy \notin ClassicNames
    \/ ClassicStrategy_init_raises(config.strategy_params)

\* ClassicStrategy._calculate_width raises "Unknown width mode"
_calculate_width_raises(self) ==
    self.parameters.width_mode \notin {"percent", "multiplier", "static_ticks"}

\* ClassicStrategy._calculate_center_price raises "Unknown placement mode"
_calculate_center_price_raises(self) ==
    self.parameters.placement_mode \notin {"center", "recenter", "dynamic"}

\* ClassicStrategy.calculate_range raises ValueError
ClassicStrategy_calculate_range_raises(self) ==
    _calculate_width_raises(self) \/ _calculate_center_price_raises(self)

\* Backtester.run up to strategy.initialize raising ValueError: the
\* baselines have taken their initial positions
run_start_raising(run, price_data) ==
    [run EXCEPT
        !.bt.price_data = price_data,
        !.bt.hodl_portfolio = initialize_position(@, price_data[1].close),
        !.bt.single_asset_portfolio = initialize_position(@, price_data[1].close),
        !.bt.pc = "raised_in_initialize"]

----------------------------------------------------------------------------
(* SpecConstruct: a Backtester for a ClassicStrategy is constructed from   *)
(* a configuration that may be wrong in one way, and then run.             *)

Without(parameters, name) == [k \in DOMAIN parameters \ {name} |-> parameters[k]]

\* a sound configuration, and the same with one defect: a required
\* parameter missing, an unknown curve type, an invalid width_mode, an
\* invalid placement_mode, an unknown strategy name
ConstructInputs ==
    LET sound == ClassicParameters("percent", 10, "center", 1)
                     @@ [curve_type |-> "uniform"]
    IN  {[strategy |-> c[1], strategy_params |-> c[2],
          initial_cash |-> Money(1000000, 0),
          fee_bps |-> 5, gas_cost |-> MZero, liq_share |-> 2] :
            c \in {<<"classic", sound>>,
                   <<"classic", Without(sound, "width_value")>>,
                   <<"classic", [sound EXCEPT !.curve_type = "bogus"]>>,
                   <<"classic", [sound EXCEPT !.width_mode = "bogus"]>>,
                   <<"classic", [sound EXCEPT !.placement_mode = "bogus"]>>,
                   <<"bogus", sound>>}}

InitConstruct ==
    /\ bt = [pc |-> "none"]
    /\ portfolio = Unused /\ strategy = Unused
    /\ call = Unused /\ upd = Unused /\ twin = Unused /\ trig = Unused

\* Backtester(config)
Construct ==
    /\ bt.pc = "none"
    /\ \E config \in ConstructInputs :
          IF Backtester_init_raises(config)
          THEN /\ bt' = [pc |-> "config_error", config |-> config]
               /\ UNCHANGED <<portfolio, strategy, call, upd, trig>>
          ELSE Become(NewBacktester(config))

\* backtester.run(price_data), up to the loop
ConstructedRun ==
    /\ bt.pc = "new"
    /\ \E price_data \in PriceDataInputs :
          IF price_data # <<>> /\ ClassicStrategy_calculate_range_raises(strategy)
          THEN Become(run_start_raising(Here, price_data))
          ELSE Become(run_start(Here, price_data))

\* a statement of the loop
ConstructedStep ==
    /\ InLoop(Here) \/ bt.pc = "results"
    /\ Become(run_step(Here))

NextConstruct ==
    \/ Construct /\ UNCHANGED twin
    \/ ConstructedRun /\ UNCHANGED twin
    \/ ConstructedStep /\ UNCHANGED twin

SpecConstruct == InitConstruct /\ [][NextConstruct]_vars

\* the configuration errors of the claim
MisconfiguredClassic(config) ==
    \/ config.strategy \notin ClassicNames
    \/ _validate_parameters_raises(config.strategy_params,
                                   <<"width_mode", "width_value", "placement_mode">>)
    \/ create_curve_raises(_get_parameter(config.strategy_params, "curve_type", "uniform"))
    \/ config.strategy_params.width_mode \notin {"percent", "multiplier", "static_ticks"}
    \/ config.strategy_params.placement_mode \notin {"center", "recenter", "dynamic"}

\* C18 (as claimed): a configuration with a missing required parameter, an
\* unknown strategy name, an unknown curve type or an invalid width_mode or
\* placement_mode is rejected by the constructor, and no call on a
\* constructed policy raises a configuration error during the run.
C18_ConfigErrorsAtConstruction ==
    /\ (bt.pc # "none" /\ MisconfiguredClassic(bt.config)) => bt.pc = "config_error"
    /\ bt.pc # "raised_in_initialize"

----------------------------------------------------------------------------
(* SpecData: one Backtester run over a bar sequence whose timestamps may   *)
(* stand still or go back. Backtester.run checks price_data.empty and      *)
(* nothing else before or inside the loop.                                 *)

MaxDataBars == 2
TimestampInputs == 0..2

\* every sequence of up to MaxDataBars bars (the empty one included) with
\* any timestamps and closes, no volume
DataInputs ==
    UNION {{[k \in 1..n |-> [timestamp |-> timestamps[k], close |-> closes[k],
                             quote_volume |-> 0]] :
                timestamps \in [1..n -> TimestampInputs],
                closes \in [1..n -> CloseInputs]} : n \in 0..MaxDataBars}

InitData == InitBacktest

\* backtester.run(price_data), up to the loop
DataRun ==
    /\ bt.pc = "new"
    /\ \E price_data \in DataInputs : Become(run_start(Here, price_data))

\* a statement of the loop, or the return
DataStep ==
    /\ InLoop(Here) \/ bt.pc = "results"
    /\ Become(run_step(Here))

NextData ==
    \/ DataRun /\ UNCHANGED twin
    \/ DataStep /\ UNCHANGED twin

SpecData == InitData /\ [][NextData]_vars

\* bar k of the sequence is valid: its timestamp is above that of bar k-1
ValidBar(price_data, k) ==
    k > 1 => price_data[k].timestamp > price_data[k - 1].timestamp

\* C19 (as claimed): a run over an empty sequence raises with the
\* portfolios and the policy as constructed, and a run never records an
\* equity point for a bar whose timestamp is not strictly greater than the
\* previous bar's: the run raises at that bar instead.
C19_DataErrorsAbort ==
    /\ bt.pc = "raised" =>
           [bt |-> [bt EXCEPT !.pc = "new"], portfolio |-> portfolio,
            strategy |-> strategy] = NewBacktester(bt.config)
    /\ bt.pc \notin {"new", "raised"} =>
           \A k \in 1..Len(portfolio.equity_curve) : ValidBar(bt.price_data, k)

----------------------------------------------------------------------------
(* Backtester.run_walkforward and Backtester._run_period. A date is an     *)
(* integer number of hours, as a timestamp; train_period and               *)
(* validation_period are numbers of days.                                  *)

\* Backtester.run from the call to its return or its raise
RECURSIVE run_loop(_)
run_loop(run) == IF Over(run) THEN run ELSE run_loop(run_step(run))
run(backtester, price_data) == run_loop(run_start(backtester, price_data))

\* timedelta(days=days)
timedelta(days) == 24 * days

\* price_data[(price_data.index >= first) & (price_data.index < last)]
Between(price_data, first, last) ==
    SelectSeq(price_data, LAMBDA bar : bar.timestamp >= first /\ bar.timestamp < last)

\* Backtester._run_period: a new Backtester(self.config) run over the
\* period's data; self.results has no "summary" key, so that the value
\* returned is the empty dict
_run_period(config, price_data) ==
    LET Outcome(finished) ==
            [raised |-> finished.bt.pc = "raised", summary |-> <<>>]
    IN  Outcome(run(NewBacktester(config), price_data))

\* run_walkforward up to the loop
walkforward_start(self, price_data) ==
    IF ~self.config.walkforward
    THEN [op |-> "run_walkforward", pc |-> "raised",
          error |-> "Walkforward analysis not enabled", price_data |-> price_data,
          results |-> <<>>, current_date |-> None, train_results |-> <<>>]
    ELSE [op |-> "run_walkforward", pc |-> "while", error |-> "",
          price_data |-> price_data,
          results |-> <<>>, current_date |-> self.config.start_date,
          train_results |-> <<>>]

train_end(self, frame) == frame.current_date + timedelta(self.config.train_period)
validation_end(self, frame) ==
    train_end(self, frame) + timedelta(self.config.validation_period)

\* the head of the loop: while current_date < end_date, and the break
walkforward_while(self, frame) ==
    IF /\ frame.current_date < self.config.end_date
       /\ ~(validation_end(self, frame) > self.config.end_date)
    THEN [frame EXCEPT !.pc = "train"]
    ELSE [frame EXCEPT !.pc = "returned"]

\* train_results = self._run_period(train_data, ...): an exception of the
\* period's run leaves run_walkforward
walkforward_train(self, frame) ==
    LET Returned(r) ==
            IF r.raised
            THEN [frame EXCEPT !.pc = "raised", !.error = "Price data is empty"]
            ELSE [frame EXCEPT !.pc = "validation", !.train_results = r.summary]
    IN  Returned(_run_period(self.config,
                             Between(frame.price_data, frame.current_date,
                                     train_end(self, frame))))

\* validation_results = self._run_period(validation_data, ...), the
\* period's entry appended, current_date = train_end
walkforward_validation(self, frame) ==
    LET Returned(r) ==
            IF r.raised
            THEN [frame EXCEPT !.pc = "raised", !.error = "Price data is empty"]
            ELSE [frame EXCEPT
                     !.pc = "while",
                     !.results = Append(@, [period |-> <<frame.current_date,
                                                         validation_end(self, frame)>>,
                                            train |-> frame.train_results,
                                            validation |-> r.summary]),
                     !.current_date = train_end(self, frame)]
    IN  Returned(_run_period(self.config,
                             Between(frame.price_data, train_end(self, frame),
                                     validation_end(self, frame))))

----------------------------------------------------------------------------
(* SpecWalk: one Backtester, run_walkforward called once over daily bars   *)
(* of which some days may be missing.                                      *)

MaxWalkDays == 4

\* a day's bar, or no bar for that day (None)
DayInputs == CloseInputs \cup {None}

\* one bar at the start of each day that has one
WalkDataInputs ==
    {LET days == SelectSeq([d \in 1..MaxWalkDays |-> d - 1],
                           LAMBDA d : closes[d + 1] # None)
     IN  [k \in 1..Len(days) |->
             [timestamp |-> timedelta(days[k]), close |-> closes[days[k] + 1],
              quote_volume |-> 0]] :
        closes \in [1..MaxWalkDays -> DayInputs]}

\* the configurations of a run, over MaxWalkDays days, with periods of
\* one day, walkforward enabled or not
WalkConfigInputs ==
    {config @@ [walkforward |-> walkforward, start_date |-> 0,
                end_date |-> timedelta(MaxWalkDays),
                train_period |-> 1, validation_period |-> 1] :
        config \in ConfigInputs, walkforward \in BOOLEAN}

InitWalk ==
    /\ \E config \in WalkConfigInputs :
          LET backtester == NewBacktester(config)
          IN  /\ bt = backtester.bt /\ portfolio = backtester.portfolio
              /\ strategy = backtester.strategy
    /\ call = [op |-> "none", pc |-> "none"]
    /\ upd = Unused /\ twin = Unused /\ trig = Unused

Walkforward ==
    /\ call.pc = "none"
    /\ \E price_data \in WalkDataInputs : call' = walkforward_start(bt, price_data)
    /\ UNCHANGED <<bt, portfolio, strategy, upd, trig>>
WalkWhile ==
    /\ call.pc = "while"
    /\ call' = walkforward_while(bt, call)
    /\ UNCHANGED <<bt, portfolio, strategy, upd, trig>>
WalkTrain ==
    /\ call.pc = "train"
    /\ call' = walkforward_train(bt, call)
    /\ UNCHANGED <<bt, portfolio, strategy, upd, trig>>
WalkValidation ==
    /\ call.pc = "validation"
    /\ call' = walkforward_validation(bt, call)
    /\ UNCHANGED <<bt, portfolio, strategy, upd, trig>>

NextWalk ==
    \/ Walkforward /\ UNCHANGED twin
    \/ WalkWhile /\ UNCHANGED twin
    \/ WalkTrain /\ UNCHANGED twin
    \/ WalkValidation /\ UNCHANGED twin

SpecWalk == InitWalk /\ [][NextWalk]_vars

\* the periods of the batch: the starts from which a train and a
\* validation period fit before end_date
PeriodsDue(config) ==
    Cardinality({k \in 0..MaxWalkDays :
        config.start_date + timedelta(config.train_period) * (k + 1)
            + timedelta(config.validation_period) <= config.end_date})

\* C20 (as claimed): an enabled run_walkforward never ends by the
\* exception of one period's run; when it is over, every period of the
\* batch has its entry in the results.
C20_PeriodFailureContained ==
    (bt.config.walkforward /\ call.pc \in {"returned", "raised"}) =>
        /\ call.pc = "returned"
        /\ Len(call.results) = PeriodsDue(bt.config)

----------------------------------------------------------------------------
(* Fee accrual.                                                            *)

\* quote_volume * liquidity_share * fee_tier_bps / 10000 in cents, for a
\* liquidity_share of 0.002
AccruedFee(quote_volume, position) ==
    Money((quote_volume * 2 * position.fee_tier_bps) \div 100000, 0)

\* C21: add_fees_to_positions adds quote_volume * liquidity_share *
\* fee_tier_bps / 10000 to fees_earned of every position whose range holds
\* the close, bounds included, and changes nothing else: the other
\* positions' fees, every position's range and liquidity, the cash and the
\* cost counters.
C21_FeesAccrueInRange ==
    call.op = "add_fees_to_positions" =>
        /\ Len(portfolio.positions) = Len(call.before.positions)
        /\ \A k \in 1..Len(portfolio.positions) :
              LET old == call.before.positions[k]
              IN  portfolio.positions[k] =
                      [old EXCEPT !.fees_earned =
                          IF old.lower_price <= call.close /\ call.close <= old.upper_price
                          THEN MAdd(@, AccruedFee(call.quote_volume, old))
                          ELSE @]
        /\ [portfolio EXCEPT !.positions = <<>>] = [call.before EXCEPT !.positions = <<>>]

\* fees accrued to a position whose upper bound is the close while another
\* position, out of range, earned nothing
C21_WitnessAtBound ==
    /\ call.op = "add_fees_to_positions"
    /\ \E k \in 1..Len(portfolio.positions) :
          /\ portfolio.positions[k].upper_price = call.close
          /\ portfolio.positions[k].fees_earned.cents > 0
    /\ \E k \in 1..Len(portfolio.positions) :
          /\ ~is_in_range(portfolio.positions[k], call.close)
          /\ portfolio.positions[k].fees_earned = MZero

----------------------------------------------------------------------------
(* Drawdown: Portfolio.get_equity_dataframe / get_performance_summary and  *)
(* MetricsCalculator.calculate_max_drawdown over a series of total_value   *)
(* in USD. A percentage is in hundredths of a percent, rounded to the      *)
(* nearest.                                                                *)

\* (value / peak - 1) * 100
PctBelow(value, peak) == (2 * value * 10000 + peak) \div (2 * peak) - 10000

\* the running maximum taken over the whole series
expanding_max_of_all(values) == [i \in 1..Len(values) |-> MaxSeq(values)]

\* df["total_value"].expanding().max()
expanding_max(values) == [i \in 1..Len(values) |-> MaxSeq(SubSeq(values, 1, i))]

\* (df["total_value"] / df["total_value"].expanding().max() - 1) * 100
drawdown(values) ==
    LET Below(running_max) ==
            [i \in 1..Len(values) |-> PctBelow(values[i], running_max[i])]
    IN  Below(expanding_max(values))

\* Series.idxmin / Series.idxmax: the first index of the extreme
idxmin(data) == CHOOSE i \in 1..Len(data) :
    data[i] = MinSeq(data) /\ \A j \in 1..(i - 1) : data[j] # data[i]
idxmax(data) == CHOOSE i \in 1..Len(data) :
    data[i] = MaxSeq(data) /\ \A j \in 1..(i - 1) : data[j] # data[i]

\* Portfolio.get_performance_summary: {} for an empty equity curve, else
\* the summary, of which max_drawdown_pct and final_value are kept
get_performance_summary(values) ==
    IF values = <<>>
    THEN <<>>
    ELSE [max_drawdown_pct |-> MinSeq(drawdown(values)),
          final_value |-> values[Len(values)]]

\* MetricsCalculator.calculate_max_drawdown: (max_drawdown_pct, peak, trough)
calculate_max_drawdown(values) ==
    IF values = <<>>
    THEN <<0, None, None>>
    ELSE LET Found(trough_idx) ==
                 <<MinSeq(drawdown(values)),
                   idxmax(SubSeq(expanding_max(values), 1, trough_idx)),
                   trough_idx>>
         IN  Found(idxmin(drawdown(values)))

----------------------------------------------------------------------------
(* SpecDrawdown: an equity series of up to MaxSeries values, summarised    *)
(* once by either function.                                                *)

MaxSeries == 5
EquityValueInputs == {80, 90, 95, 100, 120}

InitDrawdown ==
    /\ \E n \in 0..MaxSeries : \E values \in [1..n -> EquityValueInputs] :
          call = [op |-> "none", values |-> values]
    /\ portfolio = Unused /\ strategy = Unused /\ upd = Unused
    /\ bt = Unused /\ twin = Unused /\ trig = Unused

CallSummary ==
    /\ call.op = "none"
    /\ call' = [op |-> "get_performance_summary", values |-> call.values,
                ret |-> get_performance_summary(call.values)]
    /\ UNCHANGED <<portfolio, strategy, upd, bt, twin, trig>>

CallMaxDrawdown ==
    /\ call.op = "none"
    /\ call' = [op |-> "calculate_max_drawdown", values |-> call.values,
                ret |-> calculate_max_drawdown(call.values)]
    /\ UNCHANGED <<portfolio, strategy, upd, bt, twin, trig>>

NextDrawdown == CallSummary \/ CallMaxDrawdown

SpecDrawdown == InitDrawdown /\ [][NextDrawdown]_vars

\* max_drawdown_pct as returned by the call made
ReturnedDrawdown ==
    IF call.op = "get_performance_summary" THEN call.ret.max_drawdown_pct
    ELSE call.ret[1]

NonDecreasing(values) == \A i \in 1..(Len(values) - 1) : values[i] <= values[i + 1]

----------------------------------------------------------------------------
(* SpecCurves: one curve of the Uniform, Linear, Gaussian or Logarithmic   *)
(* class, constructed with any setting of mirror and invert, asked once    *)
(* for a distribution. The Sigmoid and BidAsk classes differ from these    *)
(* in their liquidity weights only and are not represented.                *)

CurveTypeInputs == {"uniform", "linear", "gaussian", "logarithmic"}
MaxBinsInputs == {4, 10}
\* 10 and 20 percent
WidthPctInputs == {1000, 2000}
\* 9,500 and 500,000 USD
TotalLiquidityInputs == {950000, 50000000}

CurveInputs ==
    {[create_curve(type, max_bins) EXCEPT !.mirror = mirror, !.invert = invert] :
        type \in CurveTypeInputs, max_bins \in MaxBinsInputs,
        mirror \in BOOLEAN, invert \in BOOLEAN}

InitCurves ==
    /\ call = [op |-> "none"]
    /\ portfolio = Unused /\ strategy = Unused /\ upd = Unused
    /\ bt = Unused /\ twin = Unused /\ trig = Unused

\* curve.generate_distribution(center_price, width_pct, total_liquidity)
CallGenerateDistribution ==
    /\ call.op = "none"
    /\ \E curve \in CurveInputs, center_price \in PriceInputs,
          width_pct \in WidthPctInputs, total_liquidity \in TotalLiquidityInputs :
          call' = [op |-> "generate_distribution", curve |-> curve,
                   center_price |-> center_price, width_pct |-> width_pct,
                   total_liquidity |-> total_liquidity,
                   raised |-> generate_distribution_raises(curve, width_pct),
                   ret |-> IF generate_distribution_raises(curve, width_pct)
                           THEN <<>>
                           ELSE generate_distribution(curve, center_price, width_pct,
                                                      total_liquidity)]
    /\ UNCHANGED <<portfolio, strategy, upd, bt, twin, trig>>

NextCurves == CallGenerateDistribution

SpecCurves == InitCurves /\ [][NextCurves]_vars

\* C23 (as claimed): whatever the class of the curve and the setting of
\* mirror and invert, generate_distribution returns bins with lower < upper,
\* each bin's upper bound the next bin's lower bound, the first lower bound
\* center * (1 - width_pct/200) and the last upper bound
\* center * (1 + width_pct/200).
C23_BinsCoverRange ==
    call.op = "generate_distribution" =>
        LET bins == call.ret
            half_width == (call.center_price * call.width_pct) \div 20000
        IN  /\ ~call.raised
            /\ Len(bins) >= 1
            /\ \A i \in 1..Len(bins) : bins[i][1] < bins[i][2]
            /\ \A i \in 1..(Len(bins) - 1) : bins[i][2] = bins[i + 1][1]
            /\ bins[1][1] = call.center_price - half_width
            /\ bins[Len(bins)][2] = call.center_price + half_width

\* C24 (as claimed): the liquidities of the bins returned by
\* generate_distribution add up to total_liquidity * liquidity_scale (up to
\* one unit of rounding for each bin).
C24_LiquidityConserved ==
    (call.op = "generate_distribution" /\ ~call.raised) =>
        Abs(SumSeq([i \in 1..Len(call.ret) |-> call.ret[i][3]])
                - call.total_liquidity \div 100) <= Len(call.ret)

----------------------------------------------------------------------------
(* Liquidity for an amount of token1 and back.                             *)

\* get_liquidity_for_amount1: int(amount1 / (diff/Q))
get_liquidity_for_amount1(sqrt_price_a_x96, sqrt_price_b_x96, amount1) ==
    LET a == Min(sqrt_price_a_x96, sqrt_price_b_x96)
        b == Max(sqrt_price_a_x96, sqrt_price_b_x96)
        diff_x96 == b - a
    IN  IF diff_x96 = 0 THEN 0
        ELSE (amount1 * QRes) \div diff_x96

----------------------------------------------------------------------------
(* SpecLiquidity: the liquidity of a notional of token1 over a range       *)
(* around a price, and the amount of token1 of that liquidity, the two     *)
(* bounds passed in either order.                                          *)

RangePriceInputs == PriceInputs \cup {10000}
\* 0.5, 5, 20 and 100 percent
RangeWidthInputs == {50, 500, 2000, 10000}
NotionalInputs == {100, 10000, 1000000}

InitLiquidity ==
    /\ call = [op |-> "none"]
    /\ portfolio = Unused /\ strategy = Unused /\ upd = Unused
    /\ bt = Unused /\ twin = Unused /\ trig = Unused

\* get_liquidity_for_amount1(A, B, notional), or the same with (B, A)
CallLiquidityForAmount1 ==
    /\ call.op = "none"
    /\ \E price \in RangePriceInputs, width_pct \in RangeWidthInputs,
          notional \in NotionalInputs, swapped \in BOOLEAN :
          LET A == price_to_sqrt_price_x96(price - (price * width_pct) \div 20000)
              B == price_to_sqrt_price_x96(price + (price * width_pct) \div 20000)
          IN  call' = [op |-> "get_liquidity_for_amount1",
                       A |-> IF swapped THEN B ELSE A,
                       B |-> IF swapped THEN A ELSE B,
                       notional |-> notional,
                       liquidity |-> IF swapped
                                     THEN get_liquidity_for_amount1(B, A, notional)
                                     ELSE get_liquidity_for_amount1(A, B, notional)]
    /\ UNCHANGED <<portfolio, strategy, upd, bt, twin, trig>>

\* get_amount1_for_liquidity(A, B, liquidity)
CallAmount1ForLiquidity ==
    /\ call.op = "get_liquidity_for_amount1"
    /\ call' = [call EXCEPT !.op = "get_amount1_for_liquidity"] @@
               [amount1 |-> get_amount1_for_liquidity(call.A, call.B, call.liquidity)]
    /\ UNCHANGED <<portfolio, strategy, upd, bt, twin, trig>>

NextLiquidity == CallLiquidityForAmount1 \/ CallAmount1ForLiquidity

SpecLiquidity == InitLiquidity /\ [][NextLiquidity]_vars

\* C25 (as claimed): the liquidity of the notional is positive and is the
\* same with the bounds in the other order, and the amount of token1 of
\* that liquidity is within 0.1% of the notional.
C25_LiquidityRoundTrip ==
    /\ call.op # "none" =>
          /\ call.liquidity > 0
          /\ call.liquidity = get_liquidity_for_amount1(call.B, call.A, call.notional)
    /\ call.op = "get_amount1_for_liquidity" =>
          1000 * Abs(call.amount1 - call.notional) <= call.notional

----------------------------------------------------------------------------
(* SpecReset: a ClassicStrategy used for up to MaxWarmUps updates and then *)
(* reset, beside a ClassicStrategy newly constructed with the same         *)
(* parameters; the two then receive the same update calls.                 *)

MaxWarmUps == 2
MaxCompared == 2

ResetParameterInputs ==
    {ClassicParameters("percent", 10, "center", 1),
     ClassicParameters("percent", 10, "recenter", 1)}

InitReset ==
    /\ \E parameters \in ResetParameterInputs : strategy = NewClassicStrategy(parameters)
    /\ twin = [unborn |-> TRUE]
    /\ upd = [phase |-> "before", n |-> 0]
    /\ portfolio = Unused /\ call = Unused /\ bt = Unused /\ trig = Unused

\* strategy.update(price_data, current_price, portfolio_value) before the reset
WarmUp ==
    /\ upd.phase = "before" /\ upd.n < MaxWarmUps
    /\ \E current_price \in StrategyPriceInputs, portfolio_value \in ValueInputs,
          t \in TimeInputs :
          LET Returns(u) ==
                  /\ strategy' = u.strategy
                  /\ upd' = [upd EXCEPT !.n = @ + 1]
          IN  Returns(ClassicStrategy_update(strategy, History(1, t, current_price),
                                             current_price, portfolio_value, FALSE))
    /\ UNCHANGED <<portfolio, call, bt, twin, trig>>

\* strategy.reset(), and ClassicStrategy(**parameters) beside it
ResetCall ==
    /\ upd.phase = "before" /\ upd.n > 0
    /\ strategy' = reset(strategy)
    /\ twin' = NewClassicStrategy(strategy.parameters)
    /\ upd' = [phase |-> "after", n |-> 0]
    /\ UNCHANGED <<portfolio, call, bt, trig>>

\* the same update call on the reset strategy and on the new one
UpdateBoth ==
    /\ upd.phase = "after" /\ upd.n < MaxCompared
    /\ \E current_price \in StrategyPriceInputs, portfolio_value \in ValueInputs,
          t \in TimeInputs :
          LET Returns(u, v) ==
                  /\ strategy' = u.strategy
                  /\ twin' = v.strategy
                  /\ upd' = [phase |-> "after", n |-> upd.n + 1,
                             portfolio_value |-> portfolio_value,
                             ret |-> u.ret, twin_ret |-> v.ret]
          IN  Returns(ClassicStrategy_update(strategy, History(1, t, current_price),
                                             current_price, portfolio_value, FALSE),
                      ClassicStrategy_update(twin, History(1, t, current_price),
                                             current_price, portfolio_value, FALSE))
    /\ UNCHANGED <<portfolio, call, bt, trig>>

NextReset == WarmUp \/ ResetCall \/ UpdateBoth

SpecReset == InitReset /\ [][NextReset]_vars

\* C26 (as claimed): after reset, initialized is False and rebalance_count
\* is 0, and after every sequence of update calls made since, the reset
\* ClassicStrategy has returned the same decision and holds the same
\* ranges and liquidities as a ClassicStrategy newly constructed with the
\* same parameters and given the same calls.
C26_ResetAsNew ==
    upd.phase = "after" =>
        /\ upd.n = 0 => (~strategy.initialized /\ strategy.rebalance_count = 0)
        /\ upd.n > 0 =>
              /\ upd.ret = upd.twin_ret
              /\ strategy.current_ranges = twin.current_ranges
              /\ strategy.current_liquidities = twin.current_liquidities

----------------------------------------------------------------------------
(* The policy's ranges and the position book.                              *)

\* the ranges and the liquidities of the open positions, in order
BookRanges(pf) ==
    [k \in 1..Len(pf.positions) |->
        <<pf.positions[k].lower_price, pf.positions[k].upper_price>>]
BookLiquidities(pf) == [k \in 1..Len(pf.positions) |-> pf.positions[k].liquidity]

\* C27 (as claimed): on a bar of Backtester.run on which a rebalance
\* occurred, from the rebalance to the end of the bar, the open positions
\* of the portfolio have the ranges and the liquidities the policy holds as
\* current_ranges and current_liquidities, in every placement mode.
C27_BookMatchesPolicy ==
    (bt.pc \in {"fees", "record"} /\ bt.should_rebalance) =>
        /\ BookRanges(portfolio) = strategy.current_ranges
        /\ BookLiquidities(portfolio) = strategy.current_liquidities

----------------------------------------------------------------------------
(* SpecCounters: one Backtester for a ClassicStrategy or an                 *)
(* ImperfectClassicStrategy, with and without a gas charge, run over a     *)
(* short bar sequence one bar at a time.                                   *)

\* the short bar sequences of PriceDataInputs
CounterDataInputs == {price_data \in PriceDataInputs : Len(price_data) <= MaxBars}

CounterStrategyInputs ==
    {<<"classic", ClassicParameters("percent", 10, "center", 1)>>,
     <<"imperfect_classic", ClassicParameters("percent", 10, "center", 1)>>,
     <<"classic", ClassicParameters("percent", 10, "center", 5)>>}

\* 10,000 USD, fee_bps 5, liq_share 0.002
CounterConfigInputs ==
    {[strategy |-> s[1], strategy_params |-> s[2],
      initial_cash |-> Money(1000000, 0),
      fee_bps |-> 5, gas_cost |-> gas_cost, liq_share |-> 2] :
        s \in CounterStrategyInputs, gas_cost \in GasCostInputs}

InitCounters ==
    /\ \E config \in CounterConfigInputs :
          LET backtester == NewBacktester(config)
          IN  /\ bt = backtester.bt /\ portfolio = backtester.portfolio
              /\ strategy = backtester.strategy
    /\ call = Unused /\ upd = Unused /\ twin = Unused /\ trig = Unused

\* backtester.run(price_data), up to the loop
CounterRun ==
    /\ bt.pc = "new"
    /\ \E price_data \in CounterDataInputs : Become(run_start(Here, price_data))
    /\ UNCHANGED twin

\* one pass through the body of the loop
CounterBar ==
    /\ InLoop(Here)
    /\ Become(run_bar(Here))
    /\ UNCHANGED twin

NextCounters == CounterRun \/ CounterBar

SpecCounters == InitCounters /\ [][NextCounters]_vars

\* C28 (as claimed): at the end of every bar of a run the rebalance
\* counters agree: portfolio.rebalance_count equals the length of
\* portfolio.transaction_history and equals the policy's rebalance_count,
\* for every class of policy, ImperfectClassicStrategy included.
C28_CountersAgree ==
    (bt.pc \in {"baselines", "results"} /\ bt.i >= 1) =>
        /\ portfolio.rebalance_count = Len(portfolio.transaction_history)
        /\ portfolio.rebalance_count = strategy.rebalance_count

\* the costs rebalance_positions returned so far, as the transaction
\* history keeps them
ReturnedCosts(pf) ==
    MSum([k \in 1..Len(pf.transaction_history) |-> pf.transaction_history[k].cost])

\* C29 (as claimed): every charge is counted once: in the equity point
\* recorded at the end of a bar, total_costs is the sum of the costs
\* returned by the rebalance_positions calls made so far, with a gas
\* charge or without.
C29_CostsCountedOnce ==
    (bt.pc \in {"baselines", "results"} /\ bt.i >= 1) =>
        Last(portfolio.equity_curve).total_costs = ReturnedCosts(portfolio)

----------------------------------------------------------------------------
(* The book right after a rebalance of a run.                              *)

\* C30 (as claimed): right after a rebalance produced by a ClassicStrategy
\* in "center" placement mode, whatever max_positions and the width, the
\* price of the bar lies inside the range of at least one open position.
C30_PriceInsideBook ==
    (/\ bt.pc = "fees" /\ bt.should_rebalance
     /\ strategy.name = "ClassicStrategy"
     /\ strategy.parameters.placement_mode = "center") =>
        \E k \in 1..Len(portfolio.positions) :
            is_in_range(portfolio.positions[k], Row(Here).close)

====
